---- MODULE Spec2Model ----
(***************************************************************************)
(* A model of the scene-animation layer: the RAF ticker (CORE/ticker.ts),  *)
(* the LogicEngine orchestrator (index.ts) and the Basic, SpinL, Orbit and *)
(* Effect processors.                                                      *)
(*                                                                         *)
(* Units.  Timestamps are milliseconds; every frame timestamp is a whole   *)
(* number of seconds, so deltaTime = (currentTime - lastTime) / 1000 is an *)
(* integer number of seconds.  Angles are counted in units of pi/30 rad    *)
(* (6 degrees), so Math.PI is 30, a quarter turn is 15 and a full turn is  *)
(* 60; cos, sin and atan2 are tabulated on quarter turns, which is where   *)
(* the chosen RPMs (multiples of 15) and axis-aligned placements land.     *)
(* A JS number is a record [k, v]: k = "num" for a finite value v, "nan",  *)
(* "inf", or "null" for null/undefined in a configuration.                 *)
(***************************************************************************)
EXTENDS Integers, Sequences, FiniteSets, TLC

VARIABLES
  ticker,           \* createTicker closure: callbacks, isRunning, rafId, lastTime
  pending,          \* the browser's pending requestAnimationFrame ids
  now,              \* timestamp (ms) of the latest display frame
  processors,       \* LogicEngine.processors
  context,          \* LogicEngine.context: [live, layers]
  sprites,          \* the drawable of each built layer
  resizeListeners,  \* how many handleResize closures window holds
  basic,            \* BasicProcessor.transforms
  spin,             \* SpinLProcessor: items, rpmBySprite, elapsedTime
  orbit,            \* OrbitProcessor: items, elapsedTime
  effect,           \* EffectProcessor: basicItems, advancedItems, live, elapsedTime
  hist,             \* observations of the last operation (not program state)
  probe             \* the arguments and the result of a function called on its own

vars == <<ticker, pending, now, processors, context, sprites, resizeListeners,
          basic, spin, orbit, effect, hist, probe>>

(***************************************************************************)
(* Bounds of the model.                                                    *)
(***************************************************************************)
MaxTime == 3
MaxCallbacks == 2
MaxBuilds == 2
MaxOps == 2
\* frames stop once a distorted sprite has moved this many pixels
MaxDrift == 8

(***************************************************************************)
(* Program constants.                                                      *)
(***************************************************************************)
STAGE_WIDTH == 1024
STAGE_HEIGHT == 1024
Pi == 30
MsPerSecond == 1000

(***************************************************************************)
(* JS numbers.                                                             *)
(***************************************************************************)
N(v) == [k |-> "num", v |-> v]
NaN == [k |-> "nan", v |-> 0]
Infinity == [k |-> "inf", v |-> 1]
Null == [k |-> "null", v |-> 0]

IsNum(a) == a.k = "num"
Add(a, b) == IF IsNum(a) /\ IsNum(b) THEN N(a.v + b.v) ELSE NaN
Sub(a, b) == IF IsNum(a) /\ IsNum(b) THEN N(a.v - b.v) ELSE NaN
Mul(a, b) == IF IsNum(a) /\ IsNum(b) THEN N(a.v * b.v) ELSE NaN

\* reading a property of an object: undefined when the object has no such
\* property, and undefined behaves as NaN in arithmetic
Prop(obj, name) == IF name \in DOMAIN obj THEN N(obj[name]) ELSE NaN

Abs(n) == IF n < 0 THEN -n ELSE n
Min(a, b) == IF a < b THEN a ELSE b
Max(a, b) == IF a > b THEN a ELSE b

(***************************************************************************)
(* Math kernel (CORE/math).                                                *)
(***************************************************************************)
toRad(deg) == (deg * Pi) \div 180

clamp(n, lo, hi) == Max(lo, Min(hi, n))

normDeg(deg) ==
  LET d == IF deg >= 0 THEN deg % 360 ELSE -((-deg) % 360)
  IN IF d < 0 THEN d + 360 ELSE d

\* clampRpm60 without its upper limit
clampRpmUncapped(v) ==
  LET n == IF v.k = "null" THEN N(0) ELSE v
  IN IF ~IsNum(n) \/ n.v <= 0 THEN 0 ELSE n.v

clampRpm60(v) ==
  LET n == IF v.k = "null" THEN N(0) ELSE v
  IN IF ~IsNum(n) \/ n.v <= 0 THEN 0 ELSE Min(60, Max(0, n.v))

\* Math.cos and Math.sin on quarter turns, NaN on NaN
Cos(a) ==
  IF ~IsNum(a) THEN NaN
  ELSE LET r == a.v % (2 * Pi)
       IN CASE r = 0 -> N(1)
            [] r = Pi \div 2 -> N(0)
            [] r = Pi -> N(-1)
            [] r = (3 * Pi) \div 2 -> N(0)

Sin(a) ==
  IF ~IsNum(a) THEN NaN
  ELSE LET r == a.v % (2 * Pi)
       IN CASE r = 0 -> N(0)
            [] r = Pi \div 2 -> N(1)
            [] r = Pi -> N(0)
            [] r = (3 * Pi) \div 2 -> N(-1)

\* Math.atan2(dy, dx) on the axes, NaN on NaN
Atan2(dy, dx) ==
  IF ~IsNum(dy) \/ ~IsNum(dx) THEN NaN
  ELSE CASE dy.v = 0 /\ dx.v >= 0 -> N(0)
         [] dy.v = 0 /\ dx.v < 0 -> N(Pi)
         [] dx.v = 0 /\ dy.v > 0 -> N(Pi \div 2)
         [] dx.v = 0 /\ dy.v < 0 -> N(-(Pi \div 2))

\* Math.hypot on integers whose sum of squares is a perfect square
Hypot(dx, dy) ==
  IF dx = 0 THEN Abs(dy)
  ELSE IF dy = 0 THEN Abs(dx)
  ELSE CHOOSE r \in 0..(Abs(dx) + Abs(dy)) : r * r = dx * dx + dy * dy

percentToStageCoords(xPct, yPct, stageWidth, stageHeight) ==
  [x |-> (xPct * stageWidth) \div 100, y |-> (yPct * stageHeight) \div 100]

(***************************************************************************)
(* Layer configurations.  A scene is the sequence of built layers in the   *)
(* order sortLayersByZIndex gives them.                                    *)
(***************************************************************************)
BaseLayer ==
  [id |-> "L1", xPct |-> 75, yPct |-> 50, scalePct |-> 100, angleDeg |-> 0,
   spinRPM |-> Null, spinDir |-> "cw",
   orbitRPM |-> Null, orbitDir |-> "cw", orbitCenter |-> <<>>,
   orbitPhaseDeg |-> Null, orbitOrientPolicy |-> "none", orbitOrientDeg |-> Null,
   effects |-> <<>>]

TiltX == [type |-> "tilt", mode |-> "pointer", axis |-> "x", maxDeg |-> 90]
Unknown == [type |-> "sparkle"]

StaticLayer == BaseLayer
SpinLayer == [BaseLayer EXCEPT !.spinRPM = N(30), !.angleDeg = 90]
FastSpinLayer == [BaseLayer EXCEPT !.spinRPM = N(90), !.spinDir = "ccw"]
InfSpinLayer == [BaseLayer EXCEPT !.spinRPM = Infinity]
OrbitLayer == [BaseLayer EXCEPT !.orbitRPM = N(15)]
AutoSpinOrbitLayer ==
  [BaseLayer EXCEPT !.spinRPM = N(30), !.orbitRPM = N(15),
                    !.orbitOrientPolicy = "auto"]
AutoOrbitLayer ==
  [BaseLayer EXCEPT !.orbitRPM = N(15), !.orbitOrientPolicy = "auto",
                    !.orbitOrientDeg = N(90)]
OverrideOrbitLayer ==
  [BaseLayer EXCEPT !.xPct = 125, !.spinRPM = N(15), !.orbitRPM = N(30),
                    !.orbitDir = "ccw", !.orbitOrientPolicy = "override",
                    !.orbitPhaseDeg = N(450)]
ZeroRadiusLayer ==
  [BaseLayer EXCEPT !.xPct = 50, !.orbitRPM = N(30),
                    !.orbitCenter = <<50, 50>>]
UnknownEffectLayer == [BaseLayer EXCEPT !.effects = <<Unknown>>]
TiltSpinLayer == [BaseLayer EXCEPT !.spinRPM = N(15), !.effects = <<TiltX>>]
TiltLayer == [BaseLayer EXCEPT !.angleDeg = 90, !.effects = <<TiltX>>]

\* effects are in the form the EffectNormalizers return them; alpha, amp,
\* strength and scale are in hundredths
FadePulseLayer ==
  [BaseLayer EXCEPT !.effects =
     << [type |-> "fade", from |-> 200, to |-> -100, durationMs |-> 2000,
         loop |-> TRUE, easing |-> "linear"],
        [type |-> "pulse", property |-> "alpha", amp |-> 150, periodMs |-> 4000,
         phaseDeg |-> 0] >>]
AuraShockLayer ==
  [BaseLayer EXCEPT !.effects =
     << [type |-> "glow", alpha |-> 150, scale |-> 100, pulseMs |-> 4000],
        [type |-> "bloom", strength |-> -100, threshold |-> 50],
        [type |-> "shockwave", periodMs |-> 2000, maxScale |-> 130, fade |-> TRUE] >>]
GlowDistortLayer ==
  [BaseLayer EXCEPT !.effects =
     << [type |-> "glow", alpha |-> 40, scale |-> 15, pulseMs |-> 0],
        [type |-> "distort", ampPx |-> 2, speed |-> 1000] >>]

Scenes ==
  { <<StaticLayer>>, <<SpinLayer>>, <<FastSpinLayer>>, <<InfSpinLayer>>,
    <<OrbitLayer>>, <<AutoSpinOrbitLayer>>, <<AutoOrbitLayer>>,
    <<OverrideOrbitLayer>>, <<ZeroRadiusLayer>>, <<UnknownEffectLayer>>,
    <<TiltSpinLayer>>,
    <<[SpinLayer EXCEPT !.id = "L1"], [OrbitLayer EXCEPT !.id = "L2"]>> }

\* the scenes whose layers carry alpha effects
EffectScenes ==
  { <<FadePulseLayer>>, <<AuraShockLayer>>, <<TiltSpinLayer>>, <<TiltLayer>>,
    <<GlowDistortLayer>>,
    <<[FadePulseLayer EXCEPT !.effects = <<FadePulseLayer.effects[1]>>]>>,
    <<[FadePulseLayer EXCEPT
         !.effects = <<[FadePulseLayer.effects[1] EXCEPT !.easing = "sineInOut"]>>]>>,
    <<[OverrideOrbitLayer EXCEPT !.effects = <<GlowDistortLayer.effects[1]>>]>>,
    <<[OrbitLayer EXCEPT !.spinRPM = N(15), !.effects = AuraShockLayer.effects]>>,
    <<[FadePulseLayer EXCEPT !.id = "L1"], [AuraShockLayer EXCEPT !.id = "L2"]>> }

LayerIds == {"L1", "L2", "L9"}

\* the items a loop over the layers pushes: Make(i) for each layer i that
\* passes Keep(i), in layer order
PushEach(n, Keep(_), Make(_)) ==
  LET idx == SelectSeq([i \in 1..n |-> i], Keep)
  IN [k \in 1..Len(idx) |-> Make(idx[k])]

\* find that falls back to the first item
FindItemOrFirst(items, layerId) ==
  IF \E k \in 1..Len(items) : items[k].layerId = layerId
  THEN CHOOSE k \in 1..Len(items) : items[k].layerId = layerId
  ELSE IF Len(items) > 0 THEN 1 ELSE 0

\* Array.prototype.find by layer id: the index of the first item, 0 if none
FindItem(items, layerId) ==
  IF \E k \in 1..Len(items) : items[k].layerId = layerId
  THEN CHOOSE k \in 1..Len(items) :
         /\ items[k].layerId = layerId
         /\ \A j \in 1..(k - 1) : items[j].layerId # layerId
  ELSE 0

(***************************************************************************)
(* Basic transform processor (Basic/index.ts).                             *)
(***************************************************************************)
getBasicTransform(cfg) ==
  LET coords == percentToStageCoords(cfg.xPct, cfg.yPct, STAGE_WIDTH, STAGE_HEIGHT)
  IN [x |-> coords.x, y |-> coords.y, scale |-> cfg.scalePct,
      rotation |-> toRad(cfg.angleDeg)]

applyTransformToSprite(sprite, transform) ==
  [sprite EXCEPT !.x = N(transform.x), !.y = N(transform.y),
                 !.scale = transform.scale, !.rotation = N(transform.rotation)]

\* new Sprite(texture): position 0, rotation 0, scale 1, alpha 1
NewSprite == [x |-> N(0), y |-> N(0), rotation |-> N(0), scale |-> 100, alpha |-> 100]

\* BasicProcessor.init and BasicProcessor.onResize run the same loop
BasicApply(w) ==
  LET layers == w.context.layers
  IN [w EXCEPT
        !.basic = [i \in 1..Len(layers) |-> getBasicTransform(layers[i])],
        !.sprites = [i \in 1..Len(layers) |->
                       applyTransformToSprite(w.sprites[i], getBasicTransform(layers[i]))]]

BasicInit(w) == BasicApply(w)
BasicOnResize(w) == BasicApply(w)
BasicDispose(w) == [w EXCEPT !.basic = <<>>]

(***************************************************************************)
(* Spin processor (SpinL/index.ts).                                        *)
(***************************************************************************)
rpmToRadPerSecond(rpm) == (rpm * Pi) \div 30

createSpinConfig(cfg) ==
  LET rpm == clampRpm60(cfg.spinRPM)
  IN [rpm |-> rpm, direction |-> IF cfg.spinDir = "ccw" THEN "ccw" ELSE "cw",
      enabled |-> rpm > 0]

createSpinItem(i, cfg, sprite) ==
  LET spinConfig == createSpinConfig(cfg)
  IN [sprite |-> i, layerId |-> cfg.id, baseRotation |-> sprite.rotation,
      radPerSecond |-> rpmToRadPerSecond(spinConfig.rpm),
      direction |-> IF spinConfig.direction = "ccw" THEN -1 ELSE 1,
      rpm |-> spinConfig.rpm, active |-> TRUE]

buildSpinSystem(layers, sprs) ==
  LET Keep(i) == createSpinConfig(layers[i]).enabled
      Make(i) == createSpinItem(i, layers[i], sprs[i])
  IN [items |-> PushEach(Len(layers), Keep, Make),
      rpmBySprite |-> [i \in 1..Len(layers) |-> createSpinConfig(layers[i]).rpm]]

updateSpinItem(sprite, item, elapsedTime) ==
  IF ~item.active THEN sprite
  ELSE [sprite EXCEPT !.rotation =
          Add(item.baseRotation, N(item.direction * item.radPerSecond * elapsedTime))]

RECURSIVE tickSpinSystem(_, _, _, _)
tickSpinSystem(sprs, items, k, elapsedTime) ==
  IF k > Len(items) THEN sprs
  ELSE tickSpinSystem(
         [sprs EXCEPT ![items[k].sprite] = updateSpinItem(@, items[k], elapsedTime)],
         items, k + 1, elapsedTime)

SpinInit(w) ==
  LET system == buildSpinSystem(w.context.layers, w.sprites)
  IN [w EXCEPT !.spin = [items |-> system.items, rpmBySprite |-> system.rpmBySprite,
                         elapsedTime |-> 0]]

SpinDispose(w) == [w EXCEPT !.spin = [items |-> <<>>, rpmBySprite |-> <<>>, elapsedTime |-> 0]]

(***************************************************************************)
(* Orbit processor (Orbit/index.ts).                                       *)
(***************************************************************************)
\* a ray parameter t = n / d, kept as a fraction with d > 0
Frac(n, d) == IF d < 0 THEN [n |-> -n, d |-> -d] ELSE [n |-> n, d |-> d]
FracLess(a, b) == a.n * b.d < b.n * a.d
\* c + t * delta
Along(c, t, delta) == c + (t.n * delta) \div t.d

\* the candidate an intersection with the edge x = edgeX pushes, if any; the
\* tests y1 >= -1 and y1 <= height + 1 are made on the exact y1 = centerY + t * dy
VerticalEdgeHit(centerX, centerY, dx, dy, edgeX, height) ==
  IF dx # 0 /\ Frac(edgeX - centerX, dx).n > 0
     /\ Frac(edgeX - centerX, dx).n * dy >= (-1 - centerY) * Frac(edgeX - centerX, dx).d
     /\ Frac(edgeX - centerX, dx).n * dy <= (height + 1 - centerY) * Frac(edgeX - centerX, dx).d
  THEN <<[t |-> Frac(edgeX - centerX, dx), x |-> edgeX,
          y |-> Along(centerY, Frac(edgeX - centerX, dx), dy)]>>
  ELSE <<>>

\* the candidate an intersection with the edge y = edgeY pushes, if any
HorizontalEdgeHit(centerX, centerY, dx, dy, edgeY, width) ==
  IF dy # 0 /\ Frac(edgeY - centerY, dy).n > 0
     /\ Frac(edgeY - centerY, dy).n * dx >= (-1 - centerX) * Frac(edgeY - centerY, dy).d
     /\ Frac(edgeY - centerY, dy).n * dx <= (width + 1 - centerX) * Frac(edgeY - centerY, dy).d
  THEN <<[t |-> Frac(edgeY - centerY, dy),
          x |-> Along(centerX, Frac(edgeY - centerY, dy), dx), y |-> edgeY]>>
  ELSE <<>>

\* candidates.sort((a, b) => a.t - b.t)[0]: the stable sort puts first the
\* earliest candidate of least t
FirstByT(candidates) ==
  candidates[CHOOSE k \in 1..Len(candidates) :
               /\ \A j \in 1..Len(candidates) : ~FracLess(candidates[j].t, candidates[k].t)
               /\ \A j \in 1..(k - 1) : FracLess(candidates[k].t, candidates[j].t)]

ClosestCandidate(candidates, pointX, pointY, width, height) ==
  IF Len(candidates) = 0
  THEN [x |-> clamp(pointX, 0, width), y |-> clamp(pointY, 0, height)]
  ELSE [x |-> FirstByT(candidates).x, y |-> FirstByT(candidates).y]

\* projectToRectBorder that clamps every outside point into the rectangle
projectByClamping(centerX, centerY, pointX, pointY, width, height) ==
  IF pointX >= 0 /\ pointX <= width /\ pointY >= 0 /\ pointY <= height
  THEN [x |-> pointX, y |-> pointY]
  ELSE [x |-> clamp(pointX, 0, width), y |-> clamp(pointY, 0, height)]

projectToRectBorder(centerX, centerY, pointX, pointY, width, height) ==
  IF pointX >= 0 /\ pointX <= width /\ pointY >= 0 /\ pointY <= height
  THEN [x |-> pointX, y |-> pointY]
  ELSE IF pointX - centerX = 0 /\ pointY - centerY = 0
  THEN [x |-> centerX, y |-> centerY]
  ELSE ClosestCandidate(
         VerticalEdgeHit(centerX, centerY, pointX - centerX, pointY - centerY, 0, height)
         \o VerticalEdgeHit(centerX, centerY, pointX - centerX, pointY - centerY, width, height)
         \o HorizontalEdgeHit(centerX, centerY, pointX - centerX, pointY - centerY, 0, width)
         \o HorizontalEdgeHit(centerX, centerY, pointX - centerX, pointY - centerY, height, width),
         pointX, pointY, width, height)

createOrbitConfig(cfg) ==
  LET rpm == clampRpm60(cfg.orbitRPM)
      center == IF cfg.orbitCenter = <<>> THEN <<50, 50>> ELSE cfg.orbitCenter
  IN [rpm |-> rpm,
      direction |-> IF cfg.orbitDir = "ccw" THEN "ccw" ELSE "cw",
      centerPercent |-> [x |-> clamp(center[1], 0, 100), y |-> clamp(center[2], 0, 100)],
      phaseDegrees |-> cfg.orbitPhaseDeg,
      orientPolicy |-> cfg.orbitOrientPolicy,
      orientDegrees |-> cfg.orbitOrientDeg,
      enabled |-> rpm > 0]

\* the center in pixels, the border-projected start point and the radius
GeometryOf(centerCoords, startPoint) ==
  [centerCoords |-> centerCoords, startPoint |-> startPoint,
   radius |-> Hypot(startPoint.x - centerCoords.x, startPoint.y - centerCoords.y)]

GeometryFrom(centerCoords, spriteCoords) ==
  GeometryOf(centerCoords,
             projectToRectBorder(centerCoords.x, centerCoords.y,
                                 spriteCoords.x, spriteCoords.y,
                                 STAGE_WIDTH, STAGE_HEIGHT))

\* the geometry of a layer's orbit about centerPercent
OrbitGeometry(cfg, centerPercent) ==
  GeometryFrom(percentToStageCoords(centerPercent.x, centerPercent.y,
                                    STAGE_WIDTH, STAGE_HEIGHT),
               percentToStageCoords(cfg.xPct, cfg.yPct, STAGE_WIDTH, STAGE_HEIGHT))

\* spinRpmBySprite.get(sprite) ?? 0
MapGet(map, key) == IF key \in DOMAIN map THEN map[key] ELSE 0

\* the item createOrbitItem returns for an enabled orbit of geometry g
OrbitItemOf(i, cfg, orbitConfig, g, spinRpm) ==
  [sprite |-> i, layerId |-> cfg.id, cfg |-> cfg,
   direction |-> IF orbitConfig.direction = "ccw" THEN -1 ELSE 1,
   radPerSecond |-> (orbitConfig.rpm * Pi) \div 30,
   centerPercent |-> orbitConfig.centerPercent,
   centerPixels |-> g.centerCoords,
   radius |-> g.radius,
   basePhase |-> IF IsNum(orbitConfig.phaseDegrees)
                 THEN N(toRad(normDeg(orbitConfig.phaseDegrees.v)))
                 ELSE Atan2(N(g.startPoint.y - g.centerCoords.y),
                            N(g.startPoint.x - g.centerCoords.x)),
   orientPolicy |-> orbitConfig.orientPolicy,
   orientRadians |-> toRad(normDeg(IF IsNum(orbitConfig.orientDegrees)
                                   THEN orbitConfig.orientDegrees.v ELSE 0)),
   spinRpm |-> spinRpm,
   active |-> TRUE]

OrbitItemWith(i, cfg, orbitConfig, spinRpmBySprite) ==
  OrbitItemOf(i, cfg, orbitConfig, OrbitGeometry(cfg, orbitConfig.centerPercent),
              MapGet(spinRpmBySprite, i))

createOrbitItem(i, cfg, spinRpmBySprite) ==
  OrbitItemWith(i, cfg, createOrbitConfig(cfg), spinRpmBySprite)

\* createOrbitItem's null test with the radius left out
OrbitItemCreatedIfEnabled(cfg) == createOrbitConfig(cfg).enabled

\* createOrbitItem returns null for a disabled orbit or a radius <= 0
OrbitItemCreated(cfg) ==
  /\ createOrbitConfig(cfg).enabled
  /\ OrbitGeometry(cfg, createOrbitConfig(cfg).centerPercent).radius > 0

buildOrbitSystem(layers, spinRpmBySprite) ==
  LET Keep(i) == OrbitItemCreated(layers[i])
      Make(i) == createOrbitItem(i, layers[i], spinRpmBySprite)
  IN PushEach(Len(layers), Keep, Make)

OrbitAngle(item, elapsedTime) ==
  Add(item.basePhase, N(item.direction * item.radPerSecond * elapsedTime))

OrbitOrients(item) ==
  item.orientPolicy = "override" \/ (item.orientPolicy = "auto" /\ item.spinRpm <= 0)

\* updateOrbitItem that orients the sprite whatever the policy
updateOrbitItemAlwaysOrients(sprite, item, elapsedTime) ==
  IF ~item.active \/ item.radius <= 0 THEN sprite
  ELSE [sprite EXCEPT
          !.x = Add(Prop(item.centerPixels, "cx"),
                    Mul(N(item.radius), Cos(OrbitAngle(item, elapsedTime)))),
          !.y = Add(Prop(item.centerPixels, "cy"),
                    Mul(N(item.radius), Sin(OrbitAngle(item, elapsedTime)))),
          !.rotation = Add(OrbitAngle(item, elapsedTime), N(item.orientRadians))]

updateOrbitItem(sprite, item, elapsedTime) ==
  IF ~item.active \/ item.radius <= 0 THEN sprite
  ELSE
    LET angle == OrbitAngle(item, elapsedTime)
    IN [sprite EXCEPT
          !.x = Add(Prop(item.centerPixels, "cx"), Mul(N(item.radius), Cos(angle))),
          !.y = Add(Prop(item.centerPixels, "cy"), Mul(N(item.radius), Sin(angle))),
          !.rotation = IF OrbitOrients(item) THEN Add(angle, N(item.orientRadians))
                       ELSE @]

\* the item and its sprite after recomputeOrbitItem found geometry g and the
\* sprite at oldAngle
RecomputedTo(sprite, item, elapsedTime, g, oldAngle) ==
  [item |-> [item EXCEPT
               !.centerPixels = g.centerCoords,
               !.radius = g.radius,
               !.basePhase = IF g.radius > 0
                             THEN Sub(oldAngle, N(item.direction * item.radPerSecond
                                                    * elapsedTime))
                             ELSE @],
   sprite |-> IF g.radius > 0
              THEN [sprite EXCEPT
                      !.x = Add(N(g.centerCoords.x), Mul(N(g.radius), Cos(oldAngle))),
                      !.y = Add(N(g.centerCoords.y), Mul(N(g.radius), Sin(oldAngle)))]
              ELSE sprite]

recomputeOrbitItem(sprite, item, elapsedTime) ==
  RecomputedTo(sprite, item, elapsedTime,
               OrbitGeometry(item.cfg, item.centerPercent),
               Atan2(Sub(sprite.y, Prop(item.centerPixels, "cy")),
                     Sub(sprite.x, Prop(item.centerPixels, "cx"))))

OrbitInit(w) ==
  LET spinRpmBySprite == <<>>
  IN [w EXCEPT !.orbit = [items |-> buildOrbitSystem(w.context.layers, spinRpmBySprite),
                          elapsedTime |-> 0]]

\* recomputeOrbitItem on items k, k+1, ... in turn
RECURSIVE OrbitRecomputeFrom(_, _)
OrbitRecomputeFrom(w, k) ==
  IF k > Len(w.orbit.items) THEN w
  ELSE
    LET item == w.orbit.items[k]
        r == recomputeOrbitItem(w.sprites[item.sprite], item, w.orbit.elapsedTime)
    IN OrbitRecomputeFrom([w EXCEPT !.orbit.items[k] = r.item,
                                    !.sprites[item.sprite] = r.sprite], k + 1)

OrbitOnResize(w) == OrbitRecomputeFrom(w, 1)

OrbitDispose(w) == [w EXCEPT !.orbit = [items |-> <<>>, elapsedTime |-> 0]]

(***************************************************************************)
(* Effect processor (Effect module, the second part of CORE/ticker.ts).    *)
(***************************************************************************)
BasicEffectTypes == {"fade", "pulse", "tilt"}
AdvancedEffectTypes == {"glow", "bloom", "distort", "shockwave"}

parseEffects(cfg) ==
  SelectSeq(cfg.effects, LAMBDA e : e.type \in BasicEffectTypes \cup AdvancedEffectTypes)

BasicSpecs(cfg) == SelectSeq(parseEffects(cfg), LAMBDA e : e.type \in BasicEffectTypes)
AdvancedSpecs(cfg) == SelectSeq(parseEffects(cfg), LAMBDA e : e.type \in AdvancedEffectTypes)

buildBasicEffects(layers) ==
  LET Keep(i) == Len(BasicSpecs(layers[i])) > 0
      Make(i) == [spriteIdx |-> i, specs |-> BasicSpecs(layers[i]),
                  baseAlpha |-> 100, baseScale |-> layers[i].scalePct,
                  prevTiltRad |-> 0]
  IN PushEach(Len(layers), Keep, Make)

\* the aura drawables a layer's glow and bloom effects create, in order: a
\* new sprite each, with the alpha the effect gives it
AurasOf(specs, baseScale) ==
  LET withAura == SelectSeq(specs, LAMBDA e : e.type \in {"glow", "bloom"})
  IN [k \in 1..Len(withAura) |->
        IF withAura[k].type = "glow"
        THEN [sprite |-> [NewSprite EXCEPT !.alpha = withAura[k].alpha],
              baseScale |-> (baseScale * (100 + withAura[k].scale)) \div 100,
              pulseMs |-> withAura[k].pulseMs]
        ELSE [sprite |-> [NewSprite EXCEPT
                            !.alpha = Min(100, 30 + (withAura[k].strength * 40) \div 100)],
              baseScale |-> (baseScale * (120 + (withAura[k].strength * 20) \div 100))
                              \div 100,
              pulseMs |-> 0]]

buildAdvancedEffects(layers, capable) ==
  LET Keep(i) == capable /\ Len(AdvancedSpecs(layers[i])) > 0
      Make(i) == [spriteIdx |-> i, specs |-> AdvancedSpecs(layers[i]),
                  baseScale |-> layers[i].scalePct,
                  auras |-> AurasOf(AdvancedSpecs(layers[i]), layers[i].scalePct),
                  distort |-> SelectSeq(AdvancedSpecs(layers[i]),
                                        LAMBDA e : e.type = "distort"),
                  shock |-> SelectSeq(AdvancedSpecs(layers[i]),
                                      LAMBDA e : e.type = "shockwave")]
  IN PushEach(Len(layers), Keep, Make)

EffectInit(w) ==
  [w EXCEPT !.effect = [basicItems |-> buildBasicEffects(w.context.layers),
                        advancedItems |-> buildAdvancedEffects(w.context.layers, w.capable),
                        live |-> TRUE, pointerX |-> 50, pointerY |-> 50,
                        elapsedTime |-> 0]]

EffectDispose(w) ==
  [w EXCEPT !.effect = [basicItems |-> <<>>, advancedItems |-> <<>>,
                        live |-> FALSE, pointerX |-> @.pointerX, pointerY |-> @.pointerY,
                        elapsedTime |-> 0]]

\* the tilt angle one tilt spec adds, in pointer mode
TiltOf(spec, pointerX, pointerY) ==
  LET dx == (pointerX - 50) * 2
      dy == (pointerY - 50) * 2
      v == IF spec.axis = "x" THEN dy
           ELSE IF spec.axis = "y" THEN -dx
           ELSE (dy + (-dx)) \div 2
      deg == Max(-spec.maxDeg, Min(spec.maxDeg, (v * spec.maxDeg) \div 100))
  IN toRad(deg)

RECURSIVE SumTilt(_, _, _, _)
SumTilt(specs, k, pointerX, pointerY) ==
  IF k > Len(specs) THEN 0
  ELSE (IF specs[k].type = "tilt" THEN TiltOf(specs[k], pointerX, pointerY) ELSE 0)
       + SumTilt(specs, k + 1, pointerX, pointerY)

\* the alpha a fade spec gives at elapsed seconds; alpha and the phase of
\* the animation are in hundredths
FadeAlpha(spec, elapsed) ==
  LET T == spec.durationMs \div MsPerSecond
      cycle == ((elapsed % T) * 100) \div T
      phase == IF spec.loop
               THEN (IF cycle > 50 THEN 100 - (cycle - 50) * 2 ELSE cycle * 2)
               ELSE cycle
      t == IF spec.easing = "sineInOut"
           THEN 50 - 50 * Cos(N((2 * Pi * phase) \div 100)).v
           ELSE phase
  IN spec.from + ((spec.to - spec.from) * t) \div 100

\* s = 1 + amp * sin(omega * elapsed + phase) of a pulse spec, in hundredths
PulseFactor(spec, elapsed) ==
  100 + spec.amp * Sin(N((2 * Pi * elapsed * MsPerSecond) \div spec.periodMs
                         + toRad(spec.phaseDeg))).v

\* alpha and scaleMul after the specs k, k+1, ... of an item
RECURSIVE AlphaScaleFrom(_, _, _, _)
AlphaScaleFrom(specs, k, acc, elapsed) ==
  IF k > Len(specs) THEN acc
  ELSE AlphaScaleFrom(specs, k + 1,
         IF specs[k].type = "fade"
         THEN [acc EXCEPT !.alpha = FadeAlpha(specs[k], elapsed)]
         ELSE IF specs[k].type = "pulse" /\ specs[k].property = "scale"
         THEN [acc EXCEPT !.scaleMul = (@ * PulseFactor(specs[k], elapsed)) \div 100]
         ELSE IF specs[k].type = "pulse"
         THEN [acc EXCEPT !.alpha = (@ * Max(0, Min(100, PulseFactor(specs[k], elapsed))))
                                      \div 100]
         ELSE acc,
         elapsed)

\* the basic pipeline's writes to one item's sprite, with the item's
\* previous tilt left as it was
BasicEffectItemTickKeepsPrevTilt(sprite, item, pointerX, pointerY, elapsed) ==
  [sprite |-> [sprite EXCEPT
                 !.alpha = Max(0, Min(100, AlphaScaleFrom(item.specs, 1,
                             [alpha |-> item.baseAlpha, scaleMul |-> 100], elapsed).alpha)),
                 !.scale = (item.baseScale * AlphaScaleFrom(item.specs, 1,
                             [alpha |-> item.baseAlpha, scaleMul |-> 100], elapsed).scaleMul)
                             \div 100,
                 !.rotation = IF SumTilt(item.specs, 1, pointerX, pointerY) # item.prevTiltRad
                              THEN Add(@, N(SumTilt(item.specs, 1, pointerX, pointerY)
                                              - item.prevTiltRad))
                              ELSE @],
   item |-> item]

\* the basic pipeline's writes to one item's sprite, and the item after them
BasicEffectItemTick(sprite, item, pointerX, pointerY, elapsed) ==
  LET tiltRad == SumTilt(item.specs, 1, pointerX, pointerY)
      prevTilt == item.prevTiltRad
      computed == AlphaScaleFrom(item.specs, 1,
                                 [alpha |-> item.baseAlpha, scaleMul |-> 100], elapsed)
  IN [sprite |-> [sprite EXCEPT
                    !.alpha = Max(0, Min(100, computed.alpha)),
                    !.scale = (item.baseScale * computed.scaleMul) \div 100,
                    !.rotation = IF tiltRad # prevTilt
                                 THEN Add(@, N(tiltRad - prevTilt)) ELSE @],
      item |-> [item EXCEPT !.prevTiltRad = IF tiltRad # prevTilt THEN tiltRad ELSE @]]

RECURSIVE BasicEffectsTickFrom(_, _)
BasicEffectsTickFrom(w, k) ==
  IF k > Len(w.effect.basicItems) THEN w
  ELSE
    LET item == w.effect.basicItems[k]
        r == BasicEffectItemTick(w.sprites[item.spriteIdx], item,
                                 w.effect.pointerX, w.effect.pointerY,
                                 w.effect.elapsedTime)
    IN BasicEffectsTickFrom([w EXCEPT !.effect.basicItems[k] = r.item,
                                      !.sprites[item.spriteIdx] = r.sprite], k + 1)

\* the owner sprite after the item's distortion: x += ampPx * sin(t) and
\* y += ampPx * cos(t * 0.9) with t = elapsed * speed * 2 pi; speed is in
\* hundredths
Distorted(sprite, item, elapsed) ==
  IF Len(item.distort) = 0 THEN sprite
  ELSE [sprite EXCEPT
          !.x = Add(@, N(item.distort[Len(item.distort)].ampPx
                           * Sin(N((2 * Pi * elapsed * item.distort[Len(item.distort)].speed)
                                     \div 100)).v)),
          !.y = Add(@, N(item.distort[Len(item.distort)].ampPx
                           * Cos(N((9 * ((2 * Pi * elapsed
                                            * item.distort[Len(item.distort)].speed) \div 100))
                                     \div 10)).v))]

\* the advanced pipeline's writes for one item: its auras follow the owner
\* sprite, then its distortion moves the owner and its shockwave scales and
\* fades it
AdvancedEffectItemTick(sprite, item, elapsed) ==
  LET shockT == IF Len(item.shock) = 0 THEN 0
                ELSE item.shock[Len(item.shock)].periodMs \div MsPerSecond
      angle == IF shockT > 0 THEN N((Pi * (elapsed % shockT)) \div shockT) ELSE N(0)
  IN [sprite |-> IF shockT > 0
                 THEN [Distorted(sprite, item, elapsed) EXCEPT
                         !.scale = (item.baseScale
                                      * (100 + (item.shock[Len(item.shock)].maxScale - 100)
                                                 * Sin(angle).v)) \div 100,
                         !.alpha = IF item.shock[Len(item.shock)].fade
                                   THEN 80 + 20 * Cos(angle).v ELSE @]
                 ELSE Distorted(sprite, item, elapsed),
      item |-> [item EXCEPT !.auras =
                  [a \in 1..Len(item.auras) |->
                     [item.auras[a] EXCEPT
                        !.sprite.x = sprite.x, !.sprite.y = sprite.y,
                        !.sprite.rotation = sprite.rotation,
                        !.sprite.scale =
                          IF item.auras[a].pulseMs > 0
                          THEN (item.auras[a].baseScale
                                  * (100 + 5 * Sin(N((2 * Pi * elapsed * MsPerSecond)
                                                       \div item.auras[a].pulseMs)).v))
                                 \div 100
                          ELSE item.auras[a].baseScale]]]]

RECURSIVE AdvancedEffectsTickFrom(_, _)
AdvancedEffectsTickFrom(w, k) ==
  IF k > Len(w.effect.advancedItems) THEN w
  ELSE
    LET item == w.effect.advancedItems[k]
        r == AdvancedEffectItemTick(w.sprites[item.spriteIdx], item, w.effect.elapsedTime)
    IN AdvancedEffectsTickFrom([w EXCEPT !.effect.advancedItems[k] = r.item,
                                         !.sprites[item.spriteIdx] = r.sprite], k + 1)

(***************************************************************************)
(* Processor ticks.  w is the whole state during one operation; w.fault    *)
(* names the processor whose drawable writes throw in this frame, and      *)
(* w.threw says an exception is propagating.                               *)
(***************************************************************************)
\* SpinTick with the elapsed time overwritten by the delta instead of
\* accumulated
SpinTickNoAccumulate(w, deltaTime) ==
  IF Len(w.spin.items) = 0 THEN w
  ELSE [w EXCEPT !.spin.elapsedTime = deltaTime,
                 !.sprites = tickSpinSystem(@, w.spin.items, 1, deltaTime)]

SpinTick(w, deltaTime) ==
  IF Len(w.spin.items) = 0 THEN w
  ELSE
    LET elapsedTime == w.spin.elapsedTime + deltaTime
        w1 == [w EXCEPT !.spin.elapsedTime = elapsedTime]
    IN IF w.fault = "SpinL" /\ \E k \in 1..Len(w.spin.items) : w.spin.items[k].active
       THEN [w1 EXCEPT !.threw = TRUE]
       ELSE [w1 EXCEPT !.sprites = tickSpinSystem(@, w.spin.items, 1, elapsedTime)]

RECURSIVE OrbitUpdateFrom(_, _, _, _)
OrbitUpdateFrom(sprs, items, k, elapsedTime) ==
  IF k > Len(items) THEN sprs
  ELSE OrbitUpdateFrom(
         [sprs EXCEPT ![items[k].sprite] = updateOrbitItem(@, items[k], elapsedTime)],
         items, k + 1, elapsedTime)

OrbitTick(w, deltaTime) ==
  IF Len(w.orbit.items) = 0 THEN w
  ELSE
    LET elapsedTime == w.orbit.elapsedTime + deltaTime
        w1 == [w EXCEPT !.orbit.elapsedTime = elapsedTime]
    IN IF w.fault = "Orbit" /\ \E k \in 1..Len(w.orbit.items) :
                                   w.orbit.items[k].active /\ w.orbit.items[k].radius > 0
       THEN [w1 EXCEPT !.threw = TRUE]
       ELSE [w1 EXCEPT !.sprites = OrbitUpdateFrom(@, w.orbit.items, 1, elapsedTime)]

EffectTick(w, deltaTime) ==
  IF Len(w.effect.basicItems) = 0 /\ Len(w.effect.advancedItems) = 0 THEN w
  ELSE
    LET w1 == [w EXCEPT !.effect.elapsedTime = @ + deltaTime]
    IN IF w.fault = "Effect" THEN [w1 EXCEPT !.threw = TRUE]
       ELSE AdvancedEffectsTickFrom(BasicEffectsTickFrom(w1, 1), 1)

\* processor.tick?.(deltaTime, ctx), with what the frame log sees of it
ProcTick(w, p, deltaTime) ==
  IF p = "Basic" THEN w
  ELSE
    LET w1 == CASE p = "SpinL" -> SpinTick(w, deltaTime)
                [] p = "Orbit" -> OrbitTick(w, deltaTime)
                [] p = "Effect" -> EffectTick(w, deltaTime)
    IN [w1 EXCEPT
          !.hist.procTicks = Append(@, p),
          !.hist.procThrew = IF w1.threw THEN Append(@, p) ELSE @,
          !.hist.afterDispose = @ \/ w.hist.everDisposed,
          !.hist.spinSum = IF p = "SpinL" THEN @ + deltaTime ELSE @,
          !.hist.spinSumPrev = IF p = "SpinL" THEN w.hist.spinSum ELSE @,
          !.hist.spinSnap = IF p = "SpinL" /\ ~w1.threw
                            THEN [i \in 1..Len(w1.sprites) |-> w1.sprites[i].rotation]
                            ELSE @,
          !.hist.orbitSnap = IF p = "Orbit" /\ ~w1.threw THEN w1.sprites ELSE @]

\* processor.onResize?.(ctx)
ProcOnResize(w, p) ==
  IF p \notin {"Basic", "Orbit"} THEN w
  ELSE
    LET w1 == IF p = "Basic" THEN BasicOnResize(w) ELSE OrbitOnResize(w)
    IN [w1 EXCEPT !.hist.resizeCalls = Append(@, p),
                  !.hist.afterDispose = @ \/ w.hist.everDisposed]

ProcInit(w, p) ==
  CASE p = "Basic" -> BasicInit(w)
    [] p = "SpinL" -> [SpinInit(w) EXCEPT !.hist.spinSum = 0, !.hist.spinSumPrev = 0]
    [] p = "Orbit" -> OrbitInit(w)
    [] p = "Effect" -> EffectInit(w)

ProcDispose(w, p) ==
  LET w1 == CASE p = "Basic" -> BasicDispose(w)
              [] p = "SpinL" -> SpinDispose(w)
              [] p = "Orbit" -> OrbitDispose(w)
              [] p = "Effect" -> EffectDispose(w)
  IN [w1 EXCEPT !.hist.disposeLog = Append(@, p)]

\* for (const processor of this.processors) Op(processor), stopping at a throw
RECURSIVE EngineTickFrom(_, _, _)
EngineTickFrom(w, k, deltaTime) ==
  IF k > Len(w.processors) \/ w.threw THEN w
  ELSE EngineTickFrom(ProcTick(w, w.processors[k], deltaTime), k + 1, deltaTime)

RECURSIVE EngineResizeFrom(_, _)
EngineResizeFrom(w, k) ==
  IF k > Len(w.processors) THEN w
  ELSE EngineResizeFrom(ProcOnResize(w, w.processors[k]), k + 1)

RECURSIVE EngineInitFrom(_, _)
EngineInitFrom(w, k) ==
  IF k > Len(w.processors) THEN w
  ELSE EngineInitFrom(ProcInit(w, w.processors[k]), k + 1)

RECURSIVE EngineDisposeFrom(_, _)
EngineDisposeFrom(w, k) ==
  IF k > Len(w.processors) THEN w
  ELSE EngineDisposeFrom(ProcDispose(w, w.processors[k]), k + 1)

\* a callback that ticks Effect first and Spin last
EngineCallbackEffectFirst(w, deltaTime) ==
  IF ~w.context.live \/ Len(w.processors) = 0 THEN w
  ELSE ProcTick(ProcTick(ProcTick(w, "Effect", deltaTime), "Orbit", deltaTime),
                "SpinL", deltaTime)

\* the callback buildScene adds to the ticker
EngineCallback(w, deltaTime) ==
  IF ~w.context.live THEN w ELSE EngineTickFrom(w, 1, deltaTime)

\* handleResize
HandleResize(w) ==
  IF ~w.context.live THEN w ELSE EngineResizeFrom(w, 1)

(***************************************************************************)
(* The ticker (CORE/ticker.ts, createTicker).                              *)
(***************************************************************************)
Guests == {"plain", "thrower", "stopper", "restarter", "disposer"}

\* requestAnimationFrame returns an id that names no other pending request
FreshId(w) ==
  LET used == w.pending \cup w.batch \cup {w.ticker.rafId}
  IN CHOOSE n \in 1..(Cardinality(used) + 1) :
       n \notin used /\ \A m \in 1..(n - 1) : m \in used

requestAnimationFrame(w) ==
  LET id == FreshId(w)
  IN [w EXCEPT !.ticker.rafId = id, !.pending = @ \cup {id}]

cancelAnimationFrame(w, id) ==
  [w EXCEPT !.pending = @ \ {id}, !.batch = @ \ {id}]

TickerAdd(w, cb) ==
  IF \E k \in 1..Len(w.ticker.callbacks) : w.ticker.callbacks[k] = cb THEN w
  ELSE [w EXCEPT !.ticker.callbacks = Append(@, cb)]

TickerRemove(w, cb) ==
  [w EXCEPT !.ticker.callbacks = SelectSeq(@, LAMBDA c : c # cb)]

\* start() without its isRunning guard
TickerStartUnguarded(w) ==
  requestAnimationFrame(
    [w EXCEPT !.ticker.isRunning = TRUE, !.ticker.lastTime = 0,
              !.hist.runTicks = IF w.ticker.isRunning THEN @ ELSE 0])

\* start() that keeps the last timestamp of the previous run
TickerStartKeepsTime(w) ==
  IF w.ticker.isRunning THEN w
  ELSE requestAnimationFrame(
         [w EXCEPT !.ticker.isRunning = TRUE, !.hist.runTicks = 0])

TickerStart(w) ==
  IF w.ticker.isRunning THEN w
  ELSE requestAnimationFrame(
         [w EXCEPT !.ticker.isRunning = TRUE, !.ticker.lastTime = 0,
                   !.hist.runTicks = 0])

TickerStop(w) ==
  IF ~w.ticker.isRunning THEN w
  ELSE [cancelAnimationFrame(w, w.ticker.rafId) EXCEPT
          !.ticker.isRunning = FALSE, !.ticker.rafId = 0]

TickerDispose(w) == [TickerStop(w) EXCEPT !.ticker.callbacks = <<>>]

\* what calling the callback does, before the ticker's catch
CallbackBody(w, cb, deltaTime) ==
  LET w1 == [w EXCEPT !.hist.invoked = Append(@, [cb |-> cb, dt |-> deltaTime])]
      w2 == CASE cb = "plain" -> w1
              [] cb = "thrower" -> [w1 EXCEPT !.threw = TRUE]
              [] cb = "stopper" -> [TickerStop(w1) EXCEPT !.hist.ctl = TRUE]
              [] cb = "restarter" -> [TickerStart(TickerStop(w1)) EXCEPT !.hist.ctl = TRUE]
              [] cb = "disposer" -> [TickerDispose(w1) EXCEPT !.hist.ctl = TRUE]
              [] OTHER -> EngineCallback(w1, deltaTime)
  IN [w2 EXCEPT !.hist.thrown = IF w2.threw THEN Append(@, cb) ELSE @]

\* the callback invoked without the try/catch around it
TryCallbackNoCatch(w, cb, deltaTime) == CallbackBody(w, cb, deltaTime)

\* try { callback(deltaTime || 0) } catch (error) { console.error(...) }
TryCallback(w, cb, deltaTime) ==
  [CallbackBody(w, cb, deltaTime) EXCEPT !.threw = FALSE]

\* for (const callback of callbacks): the live iteration of the Set
RECURSIVE IterCallbacks(_, _, _)
IterCallbacks(w, k, deltaTime) ==
  IF k > Len(w.ticker.callbacks) \/ w.threw THEN w
  ELSE IterCallbacks(TryCallback(w, w.ticker.callbacks[k], deltaTime), k + 1, deltaTime)

TickFn(w, currentTime) ==
  LET w1 == requestAnimationFrame(w)
      deltaTime == IF w.ticker.lastTime # 0
                   THEN (currentTime - w.ticker.lastTime) \div MsPerSecond
                   ELSE 0
      w2 == [w1 EXCEPT !.ticker.lastTime = currentTime,
                       !.hist.ticks = Min(2, @ + 1),
                       !.hist.tickNo = Min(2, w.hist.runTicks + 1),
                       !.hist.runTicks = Min(2, @ + 1),
                       !.hist.prevTs = w.hist.lastTs,
                       !.hist.lastTs = currentTime]
  IN [IterCallbacks(w2, 1, deltaTime) EXCEPT !.threw = FALSE]

\* the browser runs the frame's animation-frame callbacks, skipping those
\* cancelled meanwhile
RECURSIVE RunBatch(_, _)
RunBatch(w, currentTime) ==
  IF w.batch = {} THEN w
  ELSE
    LET id == CHOOSE n \in w.batch : \A m \in w.batch : n <= m
    IN RunBatch(TickFn([w EXCEPT !.batch = @ \ {id}], currentTime), currentTime)

(***************************************************************************)
(* The engine (index.ts, LogicEngine).                                     *)
(***************************************************************************)
\* the JS comparison v > 0
JsGt0(v) == (v.k = "num" /\ v.v > 0) \/ (v.k = "inf" /\ v.v > 0)

hasAnimatedLayers(layers) ==
  \E i \in 1..Len(layers) :
    \/ JsGt0(layers[i].spinRPM)
    \/ JsGt0(layers[i].orbitRPM)
    \/ Len(layers[i].effects) > 0

EngineClosure(n) == IF n = 1 THEN "engine1" ELSE IF n = 2 THEN "engine2" ELSE "engine3"

\* this.context = { app, container, cfg, layers }, with the sprites just built
CreateContext(w, layers) ==
  [w EXCEPT !.context = [live |-> TRUE, layers |-> layers],
            !.sprites = [i \in 1..Len(layers) |-> NewSprite],
            !.hist.builds = @ + 1]

\* this.ticker.add(closure); window.addEventListener('resize', handleResize)
AddListeners(w) ==
  [TickerAdd(w, EngineClosure(w.hist.builds)) EXCEPT !.resizeListeners = @ + 1]

StartIfAnimated(w, layers) ==
  IF hasAnimatedLayers(layers) THEN TickerStart(w) ELSE w

\* buildScene from the creation of the build context on (what precedes it
\* only loads assets and creates the sprites)
buildScene(w, layers) ==
  StartIfAnimated(AddListeners(EngineInitFrom(CreateContext(w, layers), 1)), layers)

\* dispose() that forgets to empty the processor list and the context
EngineDisposeLeaky(w) ==
  [EngineDisposeFrom(TickerStop(w), 1) EXCEPT !.hist.everDisposed = TRUE]

EngineDispose(w) ==
  LET w1 == EngineDisposeFrom(TickerStop(w), 1)
  IN [w1 EXCEPT !.processors = <<>>,
                !.context = [live |-> FALSE, layers |-> <<>>],
                !.hist.everDisposed = TRUE]

\* window dispatches resize to each handleResize listener in turn
RECURSIVE DispatchResize(_, _)
DispatchResize(w, n) ==
  IF n = 0 THEN w ELSE DispatchResize(HandleResize(w), n - 1)

(***************************************************************************)
(* Control operations of the Spin and Orbit processors.                    *)
(***************************************************************************)
\* getRPM(sprite): this.rpmBySprite.get(sprite) || 0
SpinGetRPM(w, sprite) ==
  IF sprite \in DOMAIN w.spin.rpmBySprite THEN w.spin.rpmBySprite[sprite] ELSE 0

SpinUpdateRPM(w, layerId, rpm) ==
  LET k == FindItem(w.spin.items, layerId)
      c == clampRpm60(rpm)
  IN IF k = 0 THEN w
     ELSE [w EXCEPT !.spin.items[k].rpm = c,
                    !.spin.items[k].radPerSecond = rpmToRadPerSecond(c),
                    !.spin.items[k].active = c > 0]

SpinToggleSpin(w, layerId) ==
  LET k == FindItem(w.spin.items, layerId)
  IN IF k = 0 THEN w ELSE [w EXCEPT !.spin.items[k].active = ~@]

SpinSetDirection(w, layerId, direction) ==
  LET k == FindItem(w.spin.items, layerId)
  IN IF k = 0 THEN w
     ELSE [w EXCEPT !.spin.items[k].direction = IF direction = "ccw" THEN -1 ELSE 1]

\* reset() that snaps the rotations but keeps the elapsed time
SpinResetKeepsElapsed(w) ==
  [w EXCEPT !.sprites = [i \in 1..Len(w.sprites) |->
                           IF \E k \in 1..Len(w.spin.items) : w.spin.items[k].sprite = i
                           THEN [w.sprites[i] EXCEPT !.rotation =
                                   w.spin.items[CHOOSE k \in 1..Len(w.spin.items) :
                                                  w.spin.items[k].sprite = i].baseRotation]
                           ELSE w.sprites[i]],
            !.hist.spinSum = 0, !.hist.spinSumPrev = 0]

SpinReset(w) ==
  [w EXCEPT !.sprites = [i \in 1..Len(w.sprites) |->
                           IF \E k \in 1..Len(w.spin.items) : w.spin.items[k].sprite = i
                           THEN [w.sprites[i] EXCEPT !.rotation =
                                   w.spin.items[CHOOSE k \in 1..Len(w.spin.items) :
                                                  w.spin.items[k].sprite = i].baseRotation]
                           ELSE w.sprites[i]],
            !.spin.elapsedTime = 0,
            !.hist.spinSum = 0, !.hist.spinSumPrev = 0]

OrbitUpdateRPM(w, layerId, rpm) ==
  LET k == FindItem(w.orbit.items, layerId)
      clampedRpm == clampRpm60(rpm)
  IN IF k = 0 THEN w
     ELSE [w EXCEPT !.orbit.items[k].radPerSecond = (clampedRpm * Pi) \div 30,
                    !.orbit.items[k].active = clampedRpm > 0]

OrbitSetDirection(w, layerId, direction) ==
  LET k == FindItem(w.orbit.items, layerId)
  IN IF k = 0 THEN w
     ELSE [w EXCEPT !.orbit.items[k].direction = IF direction = "ccw" THEN -1 ELSE 1]

OrbitUpdateCenter(w, layerId, centerPercent) ==
  LET k == FindItem(w.orbit.items, layerId)
  IN IF k = 0 THEN w
     ELSE
       LET item == [w.orbit.items[k] EXCEPT
                      !.centerPercent = [x |-> clamp(centerPercent.x, 0, 100),
                                         y |-> clamp(centerPercent.y, 0, 100)]]
           r == recomputeOrbitItem(w.sprites[item.sprite], item, w.orbit.elapsedTime)
       IN [w EXCEPT !.orbit.items[k] = r.item, !.sprites[item.sprite] = r.sprite]

(***************************************************************************)
(* State, initial state and actions.                                       *)
(***************************************************************************)
FrameTimes == {MsPerSecond * k : k \in 1..MaxTime}
Faults == {"none", "SpinL", "Orbit", "Effect"}
RpmInputs == {N(-5), N(30), N(90), NaN}
CenterInputs == {[x |-> 25, y |-> 50], [x |-> 75, y |-> 50], [x |-> 150, y |-> 50]}

\* the arguments of a control call: layer id, rpm, direction, center
NoArg == [id |-> "", rpm |-> Null, dir |-> "", center |-> [x |-> 0, y |-> 0]]

\* what an operation starts from: nothing observed yet
FreshHist(op) ==
  [hist EXCEPT !.lastOp = op, !.invoked = <<>>, !.thrown = <<>>, !.ctl = FALSE,
               !.runningAtStart = ticker.isRunning, !.ticks = 0, !.tickNo = 0,
               !.procTicks = <<>>, !.procThrew = <<>>, !.resizeCalls = <<>>,
               !.spinSnap = <<>>, !.orbitSnap = <<>>, !.before = <<>>,
               !.arg = NoArg]

World(op, fault, capable) ==
  [ticker |-> ticker, pending |-> pending, batch |-> {}, now |-> now,
   processors |-> processors, context |-> context, sprites |-> sprites,
   resizeListeners |-> resizeListeners, basic |-> basic, spin |-> spin,
   orbit |-> orbit, effect |-> effect, hist |-> FreshHist(op),
   fault |-> fault, capable |-> capable, threw |-> FALSE]

Commit(w) ==
  /\ ticker' = w.ticker
  /\ pending' = w.pending
  /\ now' = w.now
  /\ processors' = w.processors
  /\ context' = w.context
  /\ sprites' = w.sprites
  /\ resizeListeners' = w.resizeListeners
  /\ basic' = w.basic
  /\ spin' = w.spin
  /\ orbit' = w.orbit
  /\ effect' = w.effect
  /\ hist' = w.hist
  /\ probe' = probe

Init ==
  /\ ticker = [callbacks |-> <<>>, isRunning |-> FALSE, rafId |-> 0, lastTime |-> 0]
  /\ pending = {}
  /\ now = 0
  /\ processors = <<"Basic", "SpinL", "Orbit", "Effect">>
  /\ context = [live |-> FALSE, layers |-> <<>>]
  /\ sprites = <<>>
  /\ resizeListeners = 0
  /\ basic = <<>>
  /\ spin = [items |-> <<>>, rpmBySprite |-> <<>>, elapsedTime |-> 0]
  /\ orbit = [items |-> <<>>, elapsedTime |-> 0]
  /\ effect = [basicItems |-> <<>>, advancedItems |-> <<>>, live |-> FALSE,
               pointerX |-> 50, pointerY |-> 50, elapsedTime |-> 0]
  /\ hist = [lastOp |-> "new", invoked |-> <<>>, thrown |-> <<>>, ctl |-> FALSE,
             runningAtStart |-> FALSE, ticks |-> 0, tickNo |-> 0, runTicks |-> 0,
             lastTs |-> 0, prevTs |-> 0,
             procTicks |-> <<>>, procThrew |-> <<>>, resizeCalls |-> <<>>,
             spinSnap |-> <<>>, orbitSnap |-> <<>>, spinSum |-> 0, spinSumPrev |-> 0,
             before |-> <<>>, arg |-> NoArg, builds |-> 0, ops |-> 0,
             everDisposed |-> FALSE, afterDispose |-> FALSE, disposeLog |-> <<>>]
  /\ probe = <<>>

\* a display frame at timestamp ts
Frame(ts, fault) ==
  /\ ts >= now
  /\ LET w == World("frame", fault, FALSE)
     IN Commit(RunBatch([w EXCEPT !.batch = pending, !.pending = {}, !.now = ts], ts))

BuildScene(layers, capable) ==
  /\ hist.builds < MaxBuilds
  /\ Commit(buildScene(World("buildScene", "none", capable), layers))

Resize ==
  /\ resizeListeners > 0
  /\ LET w == World("resize", "none", FALSE)
     IN Commit(DispatchResize([w EXCEPT !.hist.before = sprites], resizeListeners))

Dispose ==
  /\ Commit(EngineDispose(World("dispose", "none", FALSE)))

\* container._cleanup
Cleanup ==
  /\ resizeListeners > 0
  /\ LET w == EngineDispose(World("dispose", "none", FALSE))
     IN Commit([w EXCEPT !.resizeListeners = @ - 1])

PointerMove(px, py) ==
  /\ effect.live
  /\ Len(effect.basicItems) > 0
  /\ <<px, py>> # <<effect.pointerX, effect.pointerY>>
  /\ Commit([World("pointer", "none", FALSE) EXCEPT
               !.effect.pointerX = px, !.effect.pointerY = py])

Control(op, arg, W1(_)) ==
  /\ context.live
  /\ hist.ops < MaxOps
  /\ LET w == World(op, "none", FALSE)
     IN Commit(W1([w EXCEPT !.hist.ops = @ + 1, !.hist.before = sprites,
                            !.hist.arg = arg]))

\* the layer ids a control is called with: those of the scene and one that
\* is in no scene
CallIds ==
  {id \in LayerIds : id = "L9" \/ \E i \in 1..Len(context.layers) : context.layers[i].id = id}

DoSpinUpdateRPM ==
  \E id \in CallIds, rpm \in RpmInputs :
    Control("spin.updateRPM", [NoArg EXCEPT !.id = id, !.rpm = rpm],
            LAMBDA w : SpinUpdateRPM(w, id, rpm))
DoSpinToggle ==
  \E id \in CallIds :
    Control("spin.toggleSpin", [NoArg EXCEPT !.id = id],
            LAMBDA w : SpinToggleSpin(w, id))
DoSpinSetDirection ==
  \E id \in CallIds, d \in {"cw", "ccw"} :
    Control("spin.setDirection", [NoArg EXCEPT !.id = id, !.dir = d],
            LAMBDA w : SpinSetDirection(w, id, d))
DoSpinReset == Control("spin.reset", NoArg, LAMBDA w : SpinReset(w))
DoOrbitUpdateRPM ==
  \E id \in CallIds, rpm \in RpmInputs :
    Control("orbit.updateRPM", [NoArg EXCEPT !.id = id, !.rpm = rpm],
            LAMBDA w : OrbitUpdateRPM(w, id, rpm))
DoOrbitSetDirection ==
  \E id \in CallIds, d \in {"cw", "ccw"} :
    Control("orbit.setDirection", [NoArg EXCEPT !.id = id, !.dir = d],
            LAMBDA w : OrbitSetDirection(w, id, d))
DoOrbitUpdateCenter ==
  \E id \in CallIds, c \in CenterInputs :
    Control("orbit.updateCenter", [NoArg EXCEPT !.id = id, !.center = c],
            LAMBDA w : OrbitUpdateCenter(w, id, c))
\* OrbitProcessor.onResize called on its own
DoOrbitOnResize == Control("orbit.onResize", NoArg, LAMBDA w : OrbitOnResize(w))

Next ==
  \/ \E layers \in Scenes, capable \in BOOLEAN : BuildScene(layers, capable)
  \/ \E ts \in FrameTimes, fault \in Faults : Frame(ts, fault)
  \/ Resize
  \/ Dispose
  \/ Cleanup

Spec == Init /\ [][Next]_vars

(***************************************************************************)
(* The ticker on its own, driven by arbitrary clients: callbacks that      *)
(* return, throw, or call stop(), start() and dispose() from inside.       *)
(***************************************************************************)
TickerOp(op, W1(_)) == Commit(W1(World(op, "none", FALSE)))

DoAdd ==
  \E cb \in Guests :
    /\ Len(ticker.callbacks) < MaxCallbacks
    /\ TickerOp("add", LAMBDA w : TickerAdd(w, cb))
DoRemove ==
  \E cb \in Guests :
    /\ \E k \in 1..Len(ticker.callbacks) : ticker.callbacks[k] = cb
    /\ TickerOp("remove", LAMBDA w : TickerRemove(w, cb))
DoStart == TickerOp("start", LAMBDA w : TickerStart(w))
DoStop == TickerOp("stop", LAMBDA w : TickerStop(w))
DoDispose == TickerOp("ticker.dispose", LAMBDA w : TickerDispose(w))

TickerNext ==
  \/ DoAdd
  \/ DoRemove
  \/ DoStart
  \/ DoStop
  \/ DoDispose
  \/ \E ts \in FrameTimes : Frame(ts, "none")

TickerSpec == Init /\ [][TickerNext]_vars

(***************************************************************************)
(* One built scene under the control operations of the Spin processor.     *)
(***************************************************************************)
BuildOnce(layers) ==
  /\ hist.builds = 0
  /\ Commit(buildScene(World("buildScene", "none", TRUE), layers))

SpinNext ==
  \/ \E layers \in Scenes : BuildOnce(layers)
  \/ \E ts \in FrameTimes : Frame(ts, "none")
  \/ DoSpinUpdateRPM
  \/ DoSpinToggle
  \/ DoSpinSetDirection
  \/ DoSpinReset

SpinSpec == Init /\ [][SpinNext]_vars

(***************************************************************************)
(* The engine over scenes with effects, with the pointer moving.           *)
(***************************************************************************)
PointerInputs == {0, 50, 100}

EffectNext ==
  \/ \E layers \in EffectScenes, capable \in BOOLEAN : BuildScene(layers, capable)
  \/ \E ts \in FrameTimes :
       /\ \A j \in 1..Len(effect.advancedItems) :
            (/\ Len(effect.advancedItems[j].distort) > 0
             /\ IsNum(sprites[effect.advancedItems[j].spriteIdx].y)) =>
              sprites[effect.advancedItems[j].spriteIdx].y.v
                < percentToStageCoords(
                    context.layers[effect.advancedItems[j].spriteIdx].xPct,
                    context.layers[effect.advancedItems[j].spriteIdx].yPct,
                    STAGE_WIDTH, STAGE_HEIGHT).y + MaxDrift
       /\ Frame(ts, "none")
  \/ \E px \in PointerInputs, py \in PointerInputs : PointerMove(px, py)
  \/ Dispose

EffectSpec == Init /\ [][EffectNext]_vars

(***************************************************************************)
(* projectToRectBorder called on its own, with the centers createOrbitItem *)
(* and recomputeOrbitItem can pass (a clamped percentage of the stage) and *)
(* points inside and outside the stage.                                    *)
(***************************************************************************)
ProjectCenters == {0, 512, 1024}
ProjectPoints == {-512, -100, 0, 50, 512, 1024, 1536}

\* the calls whose result has whole coordinates: a returned intersection is
\* on the ray exactly
Project(centerX, centerY, pointX, pointY) ==
  /\ LET out == projectToRectBorder(centerX, centerY, pointX, pointY,
                                    STAGE_WIDTH, STAGE_HEIGHT)
     IN \/ out = [x |-> clamp(pointX, 0, STAGE_WIDTH), y |-> clamp(pointY, 0, STAGE_HEIGHT)]
        \/ (out.x - centerX) * (pointY - centerY) = (out.y - centerY) * (pointX - centerX)
  /\ probe' = [center |-> [x |-> centerX, y |-> centerY],
               point |-> [x |-> pointX, y |-> pointY],
               out |-> projectToRectBorder(centerX, centerY, pointX, pointY,
                                           STAGE_WIDTH, STAGE_HEIGHT)]
  /\ UNCHANGED <<ticker, pending, now, processors, context, sprites, resizeListeners,
                 basic, spin, orbit, effect, hist>>

ProjectNext ==
  \E centerX \in ProjectCenters, centerY \in ProjectCenters,
     pointX \in ProjectPoints, pointY \in ProjectPoints :
    Project(centerX, centerY, pointX, pointY)

ProjectSpec == Init /\ [][ProjectNext]_vars

(***************************************************************************)
(* One built scene under the control operations of both processors.        *)
(***************************************************************************)
ControlNext ==
  \/ \E layers \in Scenes : BuildOnce(layers)
  \/ \E ts \in FrameTimes : Frame(ts, "none")
  \/ DoSpinUpdateRPM
  \/ DoSpinToggle
  \/ DoSpinSetDirection
  \/ DoSpinReset
  \/ DoOrbitUpdateRPM
  \/ DoOrbitSetDirection
  \/ DoOrbitUpdateCenter
  \/ DoOrbitOnResize

ControlSpec == Init /\ [][ControlNext]_vars

(***************************************************************************)
(* Properties.                                                             *)
(***************************************************************************)
ItemIndices(items) == 1..Len(items)

\* C1: after an Orbit tick, the sprite of every active orbit item with
\* radius > 0 is at the finite position center + radius * (cos angle, sin angle),
\* the center being the stage-pixel coordinates of the item's center
\* percentage and angle = basePhase + direction * radPerSecond * elapsed.
C1_OrbitTickPosition ==
  (hist.lastOp = "frame" /\ hist.orbitSnap # <<>>) =>
    \A k \in ItemIndices(orbit.items) :
      LET item == orbit.items[k]
          c == percentToStageCoords(item.centerPercent.x, item.centerPercent.y,
                                    STAGE_WIDTH, STAGE_HEIGHT)
          angle == OrbitAngle(item, orbit.elapsedTime)
          s == hist.orbitSnap[item.sprite]
      IN (item.active /\ item.radius > 0) =>
           /\ IsNum(s.x) /\ IsNum(s.y)
           /\ s.x = Add(N(c.x), Mul(N(item.radius), Cos(angle)))
           /\ s.y = Add(N(c.y), Mul(N(item.radius), Sin(angle)))

\* the first frame put an active orbit item's sprite at a non-number position
C1_Witness ==
  /\ hist.lastOp = "frame"
  /\ hist.orbitSnap # <<>>
  /\ \E k \in ItemIndices(orbit.items) :
       /\ orbit.items[k].active /\ orbit.items[k].radius > 0
       /\ ~IsNum(hist.orbitSnap[orbit.items[k].sprite].x)

\* C2: a resize delivered by the engine between two ticks does not move an
\* orbiting sprite: its position right after the resize is the finite
\* position it had right before.
C2_ResizeNoJump ==
  (hist.lastOp = "resize" /\ context.live) =>
    \A k \in ItemIndices(orbit.items) :
      LET item == orbit.items[k]
          after == sprites[item.sprite]
          before == hist.before[item.sprite]
      IN (item.active /\ item.radius > 0) =>
           /\ IsNum(after.x) /\ IsNum(after.y)
           /\ after.x = before.x /\ after.y = before.y

\* Basic and Orbit handled a resize and an orbiting sprite left the finite
\* position it had
C2_Witness ==
  /\ hist.lastOp = "resize"
  /\ context.live
  /\ hist.resizeCalls = <<"Basic", "Orbit">>
  /\ \E k \in ItemIndices(orbit.items) :
       /\ orbit.items[k].active /\ orbit.items[k].radius > 0
       /\ IsNum(hist.before[orbit.items[k].sprite].x)
       /\ sprites[orbit.items[k].sprite].x # hist.before[orbit.items[k].sprite].x

\* C3: for a layer with policy 'auto' and clamped spinRPM > 0, the orbit
\* item's spin-rate snapshot is the RPM the Spin processor computed, and in
\* every frame the rotation after the Orbit tick is the one Spin wrote.
C3_AutoDefersToSpin ==
  (hist.lastOp = "frame" /\ hist.spinSnap # <<>> /\ hist.orbitSnap # <<>>) =>
    \A k \in ItemIndices(orbit.items) :
      LET item == orbit.items[k]
      IN (item.orientPolicy = "auto" /\ clampRpm60(item.cfg.spinRPM) > 0) =>
           /\ item.spinRpm = spin.rpmBySprite[item.sprite]
           /\ hist.orbitSnap[item.sprite].rotation = hist.spinSnap[item.sprite]

\* an 'auto' item of a spinning layer holds spin rate 0 while Spin computed 30
C3_Witness ==
  /\ hist.lastOp = "frame"
  /\ hist.orbitSnap # <<>>
  /\ \E k \in ItemIndices(orbit.items) :
       /\ orbit.items[k].orientPolicy = "auto"
       /\ spin.rpmBySprite[orbit.items[k].sprite] = 30
       /\ orbit.items[k].spinRpm = 0

\* C4: when buildScene returns with no item in the Spin, Orbit and Effect
\* processors, the ticker is not running.
C4_NoItemsNoTicker ==
  (/\ hist.lastOp = "buildScene"
   /\ Len(spin.items) = 0
   /\ Len(orbit.items) = 0
   /\ Len(effect.basicItems) = 0
   /\ Len(effect.advancedItems) = 0) => ~ticker.isRunning

\* buildScene returned with the ticker running and no item in any processor
C4_Witness ==
  /\ hist.lastOp = "buildScene"
  /\ Len(spin.items) = 0
  /\ Len(orbit.items) = 0
  /\ Len(effect.basicItems) = 0
  /\ Len(effect.advancedItems) = 0
  /\ ticker.isRunning

C6_FaultIsolatedPerProcessor ==
  (hist.lastOp = "frame" /\ Len(hist.procThrew) > 0) =>
    /\ Len(hist.procTicks) = 3 * Len(hist.invoked)
    /\ ticker.isRunning
    /\ ticker.rafId \in pending

\* Orbit's tick threw in a frame and Effect's tick did not run
C6_Witness ==
  /\ hist.lastOp = "frame"
  /\ hist.procThrew = <<"Orbit">>
  /\ hist.procTicks = <<"SpinL", "Orbit">>

\* C7: when a callback throws during a tick in which no callback stops or
\* disposes the ticker, every registered callback is invoked in that tick in
\* insertion order, the ticker stays running and the next frame is requested.
C7_ThrowDoesNotStopOthers ==
  (hist.lastOp = "frame" /\ Len(hist.thrown) > 0 /\ ~hist.ctl) =>
    /\ [k \in 1..Len(hist.invoked) |-> hist.invoked[k].cb] = ticker.callbacks
    /\ ticker.isRunning
    /\ ticker.rafId \in pending

C7_Witness ==
  /\ hist.lastOp = "frame"
  /\ ~hist.ctl
  /\ Len(hist.invoked) >= 2
  /\ hist.invoked[1].cb = "thrower"
  /\ hist.thrown = <<"thrower">>

\* C8: at most one animation-frame request is pending, and only while the
\* ticker is running; in a frame each callback is invoked at most once, and
\* none is invoked in a frame that begins while the ticker is stopped.
C8_StartStopIdempotent ==
  /\ Cardinality(pending) <= 1
  /\ pending # {} => (ticker.isRunning /\ pending = {ticker.rafId})
  /\ hist.lastOp = "frame" =>
       /\ \A i, j \in 1..Len(hist.invoked) :
            i # j => hist.invoked[i].cb # hist.invoked[j].cb
       /\ ~hist.runningAtStart => hist.invoked = <<>>

\* a callback stopped and restarted the ticker from inside a tick
C8_Witness ==
  /\ hist.lastOp = "frame"
  /\ hist.ctl
  /\ \E k \in 1..Len(hist.invoked) : hist.invoked[k].cb = "restarter"
  /\ Len(hist.invoked) >= 2
  /\ Cardinality(pending) = 1

\* C9: the first tick of a run (a run begins at a start() that finds the
\* ticker stopped, also after a stop()) passes delta 0 to every callback, and
\* a later tick of the run passes (timestamp - previous tick's timestamp) / 1000,
\* which is >= 0.
C9_FirstDeltaZero ==
  (hist.lastOp = "frame" /\ hist.ticks > 0) =>
    \A k \in 1..Len(hist.invoked) :
      /\ hist.invoked[k].dt =
           IF hist.tickNo = 1 THEN 0
           ELSE (hist.lastTs - hist.prevTs) \div MsPerSecond
      /\ hist.invoked[k].dt >= 0

\* the first tick after a start() that followed a stop(), later than the
\* last tick of the previous run
C9_Witness ==
  /\ hist.lastOp = "frame"
  /\ hist.tickNo = 1
  /\ Len(hist.invoked) > 0
  /\ hist.prevTs > 0
  /\ hist.lastTs > hist.prevTs

\* C10: after a Spin tick each active item's sprite rotation is
\* baseRotation + direction * (rpm * pi / 30) * E, E the sum of the deltas of
\* the Spin ticks since init or the last reset, which no tick decreases; and
\* baseRotation always is the rotation the sprite had at item creation.
C10_SpinRotation ==
  /\ \A k \in ItemIndices(spin.items) :
       spin.items[k].baseRotation =
         N(toRad(context.layers[spin.items[k].sprite].angleDeg))
  /\ hist.spinSumPrev <= hist.spinSum
  /\ (hist.lastOp = "frame" /\ hist.spinSnap # <<>>) =>
       \A k \in ItemIndices(spin.items) :
         LET item == spin.items[k]
         IN item.active =>
              hist.spinSnap[item.sprite] =
                N(toRad(context.layers[item.sprite].angleDeg)
                  + item.direction * ((item.rpm * Pi) \div 30) * hist.spinSum)

\* a second tick of an item whose direction or rate was changed
C10_Witness ==
  /\ hist.lastOp = "frame"
  /\ hist.spinSnap # <<>>
  /\ hist.spinSumPrev > 0
  /\ hist.spinSum > hist.spinSumPrev
  /\ \E k \in ItemIndices(spin.items) :
       /\ spin.items[k].active
       /\ spin.items[k].direction = -1
       /\ spin.items[k].rpm = 60
       /\ context.layers[spin.items[k].sprite].angleDeg = 90

\* the item a control call's layer id names, 0 when no item has that id
ItemOf(items, layerId) ==
  IF \E k \in ItemIndices(items) : items[k].layerId = layerId
  THEN CHOOSE k \in ItemIndices(items) : items[k].layerId = layerId
  ELSE 0

\* C11: after updateRPM(layerId, r) on a layer that has a spin item, getRPM
\* of that layer's sprite returns r clamped to [0,60].
C11_GetRPMIsCurrent ==
  (hist.lastOp = "spin.updateRPM" /\ ItemOf(spin.items, hist.arg.id) # 0) =>
    SpinGetRPM([spin |-> spin], spin.items[ItemOf(spin.items, hist.arg.id)].sprite)
      = clampRpm60(hist.arg.rpm)

\* updateRPM(90) set the item's rate to 60 and getRPM still answers 30
C11_Witness ==
  /\ hist.lastOp = "spin.updateRPM"
  /\ hist.arg.rpm = N(90)
  /\ ItemOf(spin.items, hist.arg.id) # 0
  /\ spin.items[ItemOf(spin.items, hist.arg.id)].rpm = 60
  /\ SpinGetRPM([spin |-> spin], spin.items[ItemOf(spin.items, hist.arg.id)].sprite) = 30

\* the delta of the Spin tick of the frame just taken
SpinDelta(h) == h.spinSum - h.spinSumPrev

\* no Orbit or Effect item writes to this sprite
OnlySpinWrites(sprite) ==
  /\ \A j \in ItemIndices(orbit.items) : orbit.items[j].sprite # sprite
  /\ \A j \in ItemIndices(effect.basicItems) : effect.basicItems[j].spriteIdx # sprite
  /\ \A j \in ItemIndices(effect.advancedItems) : effect.advancedItems[j].spriteIdx # sprite

\* C12: a Spin tick leaves the rotation of a toggled-off item's sprite
\* unchanged, and the first Spin tick after the toggleSpin that resumes an
\* item, with delta d, writes pausedRotation + direction * radPerSecond * d
\* (for a sprite only Spin rotates; an inactive item of rate > 0 is one that
\* toggleSpin paused).
C12_TogglePausesAndResumes ==
  [][(hist'.lastOp = "frame" /\ hist'.spinSnap # <<>>) =>
       \A k \in ItemIndices(spin.items) :
         LET item == spin.items[k]
             paused == sprites[item.sprite].rotation
         IN /\ ~item.active => hist'.spinSnap[item.sprite] = paused
            /\ (item.active /\ hist.lastOp = "spin.toggleSpin"
                            /\ hist.arg.id = item.layerId
                            /\ item.radPerSecond > 0
                            /\ OnlySpinWrites(item.sprite)) =>
                 hist'.spinSnap[item.sprite] =
                   Add(paused, N(item.direction * item.radPerSecond * SpinDelta(hist')))]_vars

\* an item was resumed whose paused rotation is not the one the per-frame
\* formula gives at the elapsed time accumulated meanwhile
C12_Witness ==
  /\ hist.lastOp = "spin.toggleSpin"
  /\ ticker.isRunning /\ ticker.lastTime # 0 /\ pending # {}
  /\ \E k \in ItemIndices(spin.items) :
       /\ spin.items[k].layerId = hist.arg.id
       /\ spin.items[k].active
       /\ spin.items[k].rpm = 30
       /\ OnlySpinWrites(spin.items[k].sprite)
       /\ sprites[spin.items[k].sprite].rotation #
            Add(spin.items[k].baseRotation,
                N(spin.items[k].direction * spin.items[k].radPerSecond * spin.elapsedTime))

\* r clamped to [0,60]: 0 for a non-finite or non-positive r, min(60, r) otherwise
ExpectedRpm(r) == IF r.k = "num" /\ r.v > 0 THEN (IF r.v < 60 THEN r.v ELSE 60) ELSE 0

\* C13: every Spin item's rpm and every item's rate lie in [0,60] rpm; after
\* updateRPM(id, r) on an existing Spin or Orbit item its rate is
\* (r clamped to [0,60]) * pi / 30 and its active flag is (clamped r > 0).
C13_RpmClamped ==
  /\ \A k \in ItemIndices(spin.items) :
       /\ spin.items[k].rpm \in 0..60
       /\ spin.items[k].radPerSecond = (spin.items[k].rpm * Pi) \div 30
  /\ \A k \in ItemIndices(orbit.items) :
       orbit.items[k].radPerSecond \in 0..((60 * Pi) \div 30)
  /\ (hist.lastOp = "spin.updateRPM" /\ ItemOf(spin.items, hist.arg.id) # 0) =>
       LET item == spin.items[ItemOf(spin.items, hist.arg.id)]
       IN /\ item.rpm = ExpectedRpm(hist.arg.rpm)
          /\ item.radPerSecond = (ExpectedRpm(hist.arg.rpm) * Pi) \div 30
          /\ item.active = (ExpectedRpm(hist.arg.rpm) > 0)
  /\ (hist.lastOp = "orbit.updateRPM" /\ ItemOf(orbit.items, hist.arg.id) # 0) =>
       LET item == orbit.items[ItemOf(orbit.items, hist.arg.id)]
       IN /\ item.radPerSecond = (ExpectedRpm(hist.arg.rpm) * Pi) \div 30
          /\ item.active = (ExpectedRpm(hist.arg.rpm) > 0)

\* updateRPM(90) re-activated, at 60 rpm, an orbit item that an earlier
\* updateRPM had switched off
C13_Witness ==
  /\ hist.lastOp = "orbit.updateRPM"
  /\ hist.arg.rpm = N(90)
  /\ hist.ops = 2
  /\ ItemOf(orbit.items, hist.arg.id) # 0
  /\ orbit.items[ItemOf(orbit.items, hist.arg.id)].active
  /\ orbit.items[ItemOf(orbit.items, hist.arg.id)].radPerSecond = 60
  /\ orbit.items[ItemOf(orbit.items, hist.arg.id)].cfg.orbitRPM = N(15)

\* C14: reset() leaves every spin item's sprite (active or not) at its
\* baseRotation and the elapsed time at 0, and the first Spin tick after it,
\* with delta d, writes baseRotation + direction * radPerSecond * d for each
\* active item.
C14_ResetSnapsToBase ==
  [][/\ hist'.lastOp = "spin.reset" =>
          /\ spin'.elapsedTime = 0
          /\ \A k \in ItemIndices(spin'.items) :
               sprites'[spin'.items[k].sprite].rotation = spin'.items[k].baseRotation
     /\ (hist.lastOp = "spin.reset" /\ hist'.lastOp = "frame" /\ hist'.spinSnap # <<>>) =>
          \A k \in ItemIndices(spin.items) :
            spin.items[k].active =>
              hist'.spinSnap[spin.items[k].sprite] =
                Add(spin.items[k].baseRotation,
                    N(spin.items[k].direction * spin.items[k].radPerSecond
                      * SpinDelta(hist')))]_vars

\* reset() snapped back a sprite that had rotated, with a frame to come
\* whose delta is not 0
C14_Witness ==
  /\ hist.lastOp = "spin.reset"
  /\ ticker.isRunning /\ ticker.lastTime # 0 /\ pending # {}
  /\ \E k \in ItemIndices(spin.items) :
       /\ spin.items[k].active
       /\ hist.before[spin.items[k].sprite].rotation # spin.items[k].baseRotation
       /\ sprites[spin.items[k].sprite].rotation = spin.items[k].baseRotation

SpinIdOps == {"spin.updateRPM", "spin.toggleSpin", "spin.setDirection"}
OrbitIdOps == {"orbit.updateRPM", "orbit.setDirection", "orbit.updateCenter"}

\* C15: a Spin or Orbit control call naming a layer id for which the
\* processor holds no item leaves every item, every sprite and both elapsed
\* times unchanged.
C15_UnknownIdIsNoOp ==
  [][(\/ hist'.lastOp \in SpinIdOps /\ ItemOf(spin.items, hist'.arg.id) = 0
      \/ hist'.lastOp \in OrbitIdOps /\ ItemOf(orbit.items, hist'.arg.id) = 0) =>
       UNCHANGED <<spin, orbit, sprites, basic, effect, ticker, pending>>]_vars

\* updateCenter named a layer of the scene that has a spin item and no
\* orbit item
C15_Witness ==
  /\ hist.lastOp = "orbit.updateCenter"
  /\ ItemOf(orbit.items, hist.arg.id) = 0
  /\ ItemOf(spin.items, hist.arg.id) # 0
  /\ Len(orbit.items) > 0

RecomputeOps == {"orbit.onResize", "orbit.updateCenter"}

\* the recompute of the operation just taken covered this item
Recomputed(h, item) ==
  h.lastOp = "orbit.onResize" \/ (h.lastOp = "orbit.updateCenter" /\ h.arg.id = item.layerId)

\* the angle of a sprite about an item's center
AngleAbout(sprite, centerPercent) ==
  Atan2(Sub(sprite.y, N(percentToStageCoords(centerPercent.x, centerPercent.y,
                                             STAGE_WIDTH, STAGE_HEIGHT).y)),
        Sub(sprite.x, N(percentToStageCoords(centerPercent.x, centerPercent.y,
                                             STAGE_WIDTH, STAGE_HEIGHT).x)))

\* C16: a recompute (onResize alone, or updateCenter) right after an Orbit
\* tick of an item with radius > 0 leaves the sprite at a finite position
\* whose angle about the new center is its angle about the old center before
\* the call, and a following tick with delta 0 renders the position the
\* recompute wrote.
C16_RecomputeKeepsAngle ==
  [][/\ (hist'.lastOp \in RecomputeOps /\ hist.lastOp = "frame" /\ hist.orbitSnap # <<>>) =>
          \A k \in ItemIndices(orbit.items) :
            (/\ Recomputed(hist', orbit.items[k])
             /\ orbit.items[k].active
             /\ orbit.items[k].radius > 0 /\ orbit'.items[k].radius > 0) =>
              /\ IsNum(sprites'[orbit.items[k].sprite].x)
              /\ IsNum(sprites'[orbit.items[k].sprite].y)
              /\ AngleAbout(sprites'[orbit.items[k].sprite], orbit'.items[k].centerPercent)
                   = AngleAbout(sprites[orbit.items[k].sprite], orbit.items[k].centerPercent)
     /\ (hist.lastOp \in RecomputeOps /\ hist'.lastOp = "frame" /\ hist'.orbitSnap # <<>>
           /\ orbit'.elapsedTime = orbit.elapsedTime) =>
          \A k \in ItemIndices(orbit.items) :
            (Recomputed(hist, orbit.items[k]) /\ orbit.items[k].active
               /\ orbit.items[k].radius > 0) =>
              /\ IsNum(hist'.orbitSnap[orbit.items[k].sprite].x)
              /\ hist'.orbitSnap[orbit.items[k].sprite].x = sprites[orbit.items[k].sprite].x
              /\ hist'.orbitSnap[orbit.items[k].sprite].y = sprites[orbit.items[k].sprite].y]_vars

\* updateCenter moved the center of a ticked item with radius > 0 and left
\* its sprite at a non-number position
C16_Witness ==
  /\ hist.lastOp = "orbit.updateCenter"
  /\ orbit.elapsedTime > 0
  /\ \E k \in ItemIndices(orbit.items) :
       /\ orbit.items[k].layerId = hist.arg.id
       /\ orbit.items[k].active /\ orbit.items[k].radius > 0
       /\ orbit.items[k].centerPercent = [x |-> 25, y |-> 50]
       /\ ~IsNum(sprites[orbit.items[k].sprite].x)

\* the policy under which the claim has updateOrbitItem write the rotation
PolicyOrients(item) ==
  item.orientPolicy = "override" \/ (item.orientPolicy = "auto" /\ item.spinRpm <= 0)

\* angle + orientRadians at the elapsed time of the Orbit tick just taken
OrientedRotation(item) ==
  Add(Add(item.basePhase, N(item.direction * item.radPerSecond * orbit.elapsedTime)),
      N(item.orientRadians))

DerivedRadius(cfg) == OrbitGeometry(cfg, createOrbitConfig(cfg).centerPercent).radius

\* C18: of a built scene, a layer has an orbit item exactly when its clamped
\* orbitRPM is > 0 and the radius derived by border projection is > 0, and
\* after any sequence of ticks and controls every item's radius is >= 0.
C18_ItemIffRpmAndRadius ==
  /\ \A k \in ItemIndices(orbit.items) : orbit.items[k].radius >= 0
  /\ context.live =>
       \A i \in 1..Len(context.layers) :
         (\E k \in ItemIndices(orbit.items) : orbit.items[k].sprite = i)
           <=> (ExpectedRpm(context.layers[i].orbitRPM) > 0
                 /\ DerivedRadius(context.layers[i]) > 0)

\* updateCenter has brought the radius of an item created with radius > 0
\* to 0
C18_Witness ==
  /\ hist.lastOp = "orbit.updateCenter"
  /\ \E k \in ItemIndices(orbit.items) :
       /\ orbit.items[k].layerId = hist.arg.id
       /\ orbit.items[k].radius = 0
       /\ DerivedRadius(context.layers[orbit.items[k].sprite]) > 0

\* C19: at elapsed time 0 the Orbit tick renders the sprite of an item whose
\* orbitPhaseDeg is not configured at the layer's configured position in
\* stage pixels, and the basePhase of an item whose orbitPhaseDeg is a finite
\* number is that value normalized to [0,360) degrees, in radians.
C19_StartsWherePlaced ==
  (hist.lastOp = "frame" /\ hist.orbitSnap # <<>> /\ orbit.elapsedTime = 0 /\ hist.ops = 0) =>
    \A k \in ItemIndices(orbit.items) :
      IF IsNum(orbit.items[k].cfg.orbitPhaseDeg)
      THEN orbit.items[k].basePhase
             = N(((orbit.items[k].cfg.orbitPhaseDeg.v % 360) * Pi) \div 180)
      ELSE /\ hist.orbitSnap[orbit.items[k].sprite].x
                = N((orbit.items[k].cfg.xPct * STAGE_WIDTH) \div 100)
           /\ hist.orbitSnap[orbit.items[k].sprite].y
                = N((orbit.items[k].cfg.yPct * STAGE_HEIGHT) \div 100)

\* the first Orbit tick, at elapsed time 0, of an item without orbitPhaseDeg
\* whose basePhase points at the configured position
C19_Witness ==
  /\ hist.lastOp = "frame" /\ hist.orbitSnap # <<>>
  /\ orbit.elapsedTime = 0 /\ hist.ops = 0
  /\ \E k \in ItemIndices(orbit.items) :
       /\ ~IsNum(orbit.items[k].cfg.orbitPhaseDeg)
       /\ orbit.items[k].basePhase = N(0)
       /\ orbit.items[k].cfg.xPct = 75
       /\ orbit.items[k].radius = (25 * STAGE_WIDTH) \div 100

\* the aura drawables of the Effect processor
Auras ==
  UNION {{effect.advancedItems[j].auras[a].sprite :
            a \in 1..Len(effect.advancedItems[j].auras)} :
          j \in ItemIndices(effect.advancedItems)}

\* C20: every alpha the Effect processor has written is in [0,1]: the alpha
\* of each glow and bloom aura, and after a tick the alpha of each sprite
\* owning a fade, pulse or shockwave-with-fade effect.
C20_EffectAlphaInUnitRange ==
  /\ \A aura \in Auras : aura.alpha >= 0 /\ aura.alpha <= 100
  /\ (hist.lastOp = "frame" /\ effect.live) =>
       /\ \A j \in ItemIndices(effect.basicItems) :
            /\ sprites[effect.basicItems[j].spriteIdx].alpha >= 0
            /\ sprites[effect.basicItems[j].spriteIdx].alpha <= 100
       /\ \A j \in ItemIndices(effect.advancedItems) :
            /\ sprites[effect.advancedItems[j].spriteIdx].alpha >= 0
            /\ sprites[effect.advancedItems[j].spriteIdx].alpha <= 100

\* a scene with a glow of configured alpha 1.5 and a bloom of strength -1 has
\* been built and ticked, its shockwave has faded the owner to 0.8 and the
\* basic pipeline has clamped a fade below 0 to 0
C20_Witness ==
  /\ hist.lastOp = "frame" /\ effect.live
  /\ effect.elapsedTime = 1
  /\ \E aura \in Auras : aura.alpha = 150
  /\ \E aura \in Auras : aura.alpha = -10
  /\ \E j \in ItemIndices(effect.advancedItems) :
       sprites[effect.advancedItems[j].spriteIdx].alpha = 80
  /\ \E j \in ItemIndices(effect.basicItems) :
       /\ FadeAlpha(effect.basicItems[j].specs[1], effect.elapsedTime) = -100
       /\ sprites[effect.basicItems[j].spriteIdx].alpha = 0

\* the point of the probe lies in the rectangle
ProbeInside ==
  /\ probe.point.x >= 0 /\ probe.point.x <= STAGE_WIDTH
  /\ probe.point.y >= 0 /\ probe.point.y <= STAGE_HEIGHT

\* q is the intersection of the ray from the probe's center through its
\* point with the line of a rectangle edge, ahead of the center, its other
\* coordinate within the edge's bounds with a tolerance of 1
ValidHit(q) ==
  /\ (q.x - probe.center.x) * (probe.point.y - probe.center.y)
       = (q.y - probe.center.y) * (probe.point.x - probe.center.x)
  /\ (q.x - probe.center.x) * (probe.point.x - probe.center.x) >= 0
  /\ (q.y - probe.center.y) * (probe.point.y - probe.center.y) >= 0
  /\ q # probe.center
  /\ \/ q.x \in {0, STAGE_WIDTH} /\ probe.point.x # probe.center.x
          /\ q.x # probe.center.x /\ q.y >= -1 /\ q.y <= STAGE_HEIGHT + 1
     \/ q.y \in {0, STAGE_HEIGHT} /\ probe.point.y # probe.center.y
          /\ q.y # probe.center.y /\ q.x >= -1 /\ q.x <= STAGE_WIDTH + 1

\* the squared distance of q from the probe's center: on one ray, the order
\* of the ray parameter
Dist2(q) ==
  (q.x - probe.center.x) * (q.x - probe.center.x)
    + (q.y - probe.center.y) * (q.y - probe.center.y)

\* the integer points of the four edge lines within the tolerance
EdgePoints ==
  {[x |-> x, y |-> y] : x \in {0, STAGE_WIDTH}, y \in -1..(STAGE_HEIGHT + 1)}
    \cup {[x |-> x, y |-> y] : x \in -1..(STAGE_WIDTH + 1), y \in {0, STAGE_HEIGHT}}

\* C21: projectToRectBorder returns a point of the rectangle unchanged;
\* for a point outside it returns the valid intersection of least ray
\* parameter, and the point clamped into the rectangle when there is none.
\* Center (512,512): point (512,50) gives (512,50), point (512,-100) gives
\* (512,0), at distance 512.
C21_ProjectsToBorder ==
  probe # <<>> =>
    /\ ProbeInside => probe.out = probe.point
    /\ (~ProbeInside /\ \E q \in EdgePoints : ValidHit(q)) =>
         /\ ValidHit(probe.out)
         /\ \A q \in EdgePoints : ValidHit(q) => Dist2(probe.out) <= Dist2(q)
    /\ (~ProbeInside /\ ~\E q \in EdgePoints : ValidHit(q)) =>
         probe.out = [x |-> clamp(probe.point.x, 0, STAGE_WIDTH),
                      y |-> clamp(probe.point.y, 0, STAGE_HEIGHT)]
    /\ (probe.center = [x |-> 512, y |-> 512] /\ probe.point = [x |-> 512, y |-> 50]) =>
         probe.out = [x |-> 512, y |-> 50]
    /\ (probe.center = [x |-> 512, y |-> 512] /\ probe.point = [x |-> 512, y |-> -100]) =>
         probe.out = [x |-> 512, y |-> 0] /\ Dist2(probe.out) = 512 * 512

\* a point outside the stage, off both axes of the center, was projected
\* onto an edge and not to where clamping would put it
C21_Witness ==
  /\ probe # <<>>
  /\ probe.center = [x |-> 512, y |-> 512]
  /\ probe.point = [x |-> 1536, y |-> 0]
  /\ probe.out = [x |-> STAGE_WIDTH, y |-> 256]

\* the sprite is at a finite position on the item's circle
OnCircle(sprite, item) ==
  /\ IsNum(sprite.x) /\ IsNum(sprite.y)
  /\ Hypot(sprite.x.v - (item.centerPercent.x * STAGE_WIDTH) \div 100,
           sprite.y.v - (item.centerPercent.y * STAGE_HEIGHT) \div 100) = item.radius

\* C22: an Orbit tick leaves the position and rotation of the sprite of an
\* item whose radius a recompute made non-positive as they were; an
\* updateCenter that brings the radius back above 0 puts the sprite at a
\* finite position on the new circle with a finite base phase, from which
\* the ticks that follow move it.
C22_ZeroRadiusIsInertUntilRecentered ==
  [][/\ (hist'.lastOp = "frame" /\ hist'.orbitSnap # <<>>) =>
          \A k \in ItemIndices(orbit.items) :
            orbit.items[k].radius <= 0 =>
              /\ hist'.orbitSnap[orbit.items[k].sprite].x = sprites[orbit.items[k].sprite].x
              /\ hist'.orbitSnap[orbit.items[k].sprite].y = sprites[orbit.items[k].sprite].y
              /\ hist'.orbitSnap[orbit.items[k].sprite].rotation
                   = hist'.spinSnap[orbit.items[k].sprite]
     /\ (hist'.lastOp = "orbit.updateCenter") =>
          \A k \in ItemIndices(orbit.items) :
            (orbit.items[k].radius <= 0 /\ orbit'.items[k].radius > 0) =>
              /\ OnCircle(sprites'[orbit.items[k].sprite], orbit'.items[k])
              /\ IsNum(orbit'.items[k].basePhase)]_vars

\* an Orbit tick has passed over an active item whose radius updateCenter
\* brought to 0
C22_Witness ==
  /\ hist.lastOp = "frame" /\ hist.orbitSnap # <<>>
  /\ hist.ops > 0
  /\ orbit.elapsedTime > 0
  /\ \E k \in ItemIndices(orbit.items) :
       /\ orbit.items[k].active /\ orbit.items[k].radius = 0
       /\ hist.orbitSnap[orbit.items[k].sprite].x = sprites[orbit.items[k].sprite].x

\* neither Spin nor Orbit has an item for the sprite
OnlyEffectRotates(sprite) ==
  /\ \A k \in ItemIndices(spin.items) : spin.items[k].sprite # sprite
  /\ \A k \in ItemIndices(orbit.items) : orbit.items[k].sprite # sprite

\* the tilt angle of a basic item at the pointer's position
CurrentTilt(item) == SumTilt(item.specs, 1, effect.pointerX, effect.pointerY)

\* C23: a frame's Effect tick adds (new tilt - previous tilt) to the rotation
\* of a sprite no other processor rotates and remembers the new tilt, so
\* that after the tick rotation = initial rotation + current tilt, whatever
\* the pointer did between the frames.
C23_TiltIsIncremental ==
  [][(hist'.lastOp = "frame"
        /\ \E n \in 1..Len(hist'.procTicks) : hist'.procTicks[n] = "Effect") =>
       \A j \in ItemIndices(effect.basicItems) :
         OnlyEffectRotates(effect.basicItems[j].spriteIdx) =>
           /\ sprites'[effect.basicItems[j].spriteIdx].rotation
                = Add(sprites[effect.basicItems[j].spriteIdx].rotation,
                      N(CurrentTilt(effect.basicItems[j]) - effect.basicItems[j].prevTiltRad))
           /\ effect'.basicItems[j].prevTiltRad = CurrentTilt(effect.basicItems[j])
           /\ sprites'[effect.basicItems[j].spriteIdx].rotation
                = N(toRad(context.layers[effect.basicItems[j].spriteIdx].angleDeg)
                      + CurrentTilt(effect.basicItems[j]))]_vars

\* a tick has applied a tilt of a quarter turn to a sprite only the Effect
\* processor rotates, in a frame after the first
C23_Witness ==
  /\ hist.lastOp = "frame" /\ effect.live
  /\ effect.elapsedTime > 0
  /\ \E j \in ItemIndices(effect.basicItems) :
       /\ OnlyEffectRotates(effect.basicItems[j].spriteIdx)
       /\ CurrentTilt(effect.basicItems[j]) = Pi \div 2
       /\ effect.basicItems[j].prevTiltRad = Pi \div 2
       /\ sprites[effect.basicItems[j].spriteIdx].rotation = N(Pi)

\* the frame just delivered ran the Effect processor's tick
EffectTicked ==
  /\ hist.lastOp = "frame" /\ effect.live
  /\ \E n \in 1..Len(hist.procTicks) : hist.procTicks[n] = "Effect"

\* C24: at the end of every Effect tick, each glow and bloom aura has the x,
\* y and rotation its owner sprite has at the end of that tick, also when the
\* owner's layer has a distort effect.
C24_AurasTrackOwner ==
  EffectTicked =>
    \A j \in ItemIndices(effect.advancedItems) :
      \A a \in 1..Len(effect.advancedItems[j].auras) :
        /\ effect.advancedItems[j].auras[a].sprite.x
             = sprites[effect.advancedItems[j].spriteIdx].x
        /\ effect.advancedItems[j].auras[a].sprite.y
             = sprites[effect.advancedItems[j].spriteIdx].y
        /\ effect.advancedItems[j].auras[a].sprite.rotation
             = sprites[effect.advancedItems[j].spriteIdx].rotation

\* the first Effect tick has run on a layer with a glow aura and a distort
\* effect
C24_Witness ==
  /\ EffectTicked /\ hist.builds = 1 /\ hist.procTicks = <<"SpinL", "Orbit", "Effect">>
  /\ \E j \in ItemIndices(effect.advancedItems) :
       /\ Len(effect.advancedItems[j].auras) > 0
       /\ Len(effect.advancedItems[j].distort) > 0
       /\ IsNum(effect.advancedItems[j].auras[1].sprite.y)
       /\ IsNum(sprites[effect.advancedItems[j].spriteIdx].y)

\* the position distort perturbs the sprite around: the one Orbit wrote in
\* this frame, or the layer's configured position when the sprite has no
\* orbit item
BasePosition(idx) ==
  IF \E k \in ItemIndices(orbit.items) : orbit.items[k].sprite = idx /\ orbit.items[k].active
  THEN [x |-> hist.orbitSnap[idx].x, y |-> hist.orbitSnap[idx].y]
  ELSE [x |-> N(percentToStageCoords(context.layers[idx].xPct, context.layers[idx].yPct,
                                       STAGE_WIDTH, STAGE_HEIGHT).x),
        y |-> N(percentToStageCoords(context.layers[idx].xPct, context.layers[idx].yPct,
                                       STAGE_WIDTH, STAGE_HEIGHT).y)]

\* C25: after every frame, the x and the y of a sprite with a distort effect
\* are each within ampPx of its base position, for any number of frames of
\* a scene built once.
C25_DistortStaysNearBase ==
  (EffectTicked /\ hist.builds = 1) =>
    \A j \in ItemIndices(effect.advancedItems) :
      Len(effect.advancedItems[j].distort) > 0 =>
        LET idx == effect.advancedItems[j].spriteIdx
            amp == effect.advancedItems[j].distort[Len(effect.advancedItems[j].distort)].ampPx
        IN /\ IsNum(sprites[idx].x) /\ IsNum(sprites[idx].y)
           /\ Abs(sprites[idx].x.v - BasePosition(idx).x.v) <= amp
           /\ Abs(sprites[idx].y.v - BasePosition(idx).y.v) <= amp

\* a second Effect tick has run on a sprite with a distort effect
C25_Witness ==
  /\ EffectTicked /\ hist.builds = 1
  /\ effect.elapsedTime > 0
  /\ \E j \in ItemIndices(effect.advancedItems) :
       /\ Len(effect.advancedItems[j].distort) > 0
       /\ IsNum(sprites[effect.advancedItems[j].spriteIdx].y)

\* C26: in every frame the engine's callback ticks the processors in the
\* order Spin, Orbit, Effect, each after the one before it has finished, and
\* each sees what the one before wrote in that frame: Orbit leaves Spin's
\* rotation on a sprite it does not orient and replaces it on one it
\* orients, and the Effect tick copies the position Orbit wrote into the
\* auras.
C26_SpinThenOrbitThenEffect ==
  (hist.lastOp = "frame" /\ hist.procTicks # <<>>) =>
    /\ Len(hist.procTicks) % 3 = 0
    /\ \A n \in 1..Len(hist.procTicks) :
         hist.procTicks[n] = <<"SpinL", "Orbit", "Effect">>[((n - 1) % 3) + 1]
    /\ \A k \in ItemIndices(orbit.items) :
         hist.orbitSnap[orbit.items[k].sprite].rotation =
           IF orbit.items[k].active /\ orbit.items[k].radius > 0
              /\ PolicyOrients(orbit.items[k])
           THEN OrientedRotation(orbit.items[k])
           ELSE hist.spinSnap[orbit.items[k].sprite]
    /\ \A j \in ItemIndices(effect.advancedItems) :
         \A a \in 1..Len(effect.advancedItems[j].auras) :
           /\ effect.advancedItems[j].auras[a].sprite.x
                = hist.orbitSnap[effect.advancedItems[j].spriteIdx].x
           /\ effect.advancedItems[j].auras[a].sprite.y
                = hist.orbitSnap[effect.advancedItems[j].spriteIdx].y

\* a frame after the first has ticked Spin, Orbit and Effect on a sprite
\* with a spin item, an active 'override' orbit item and an aura: Orbit has
\* replaced the rotation Spin wrote
C26_Witness ==
  /\ hist.lastOp = "frame" /\ hist.procTicks = <<"SpinL", "Orbit", "Effect">>
  /\ orbit.elapsedTime > 0
  /\ \E k \in ItemIndices(orbit.items), j \in ItemIndices(effect.advancedItems) :
       /\ orbit.items[k].active /\ orbit.items[k].radius > 0
       /\ orbit.items[k].orientPolicy = "override"
       /\ effect.advancedItems[j].spriteIdx = orbit.items[k].sprite
       /\ Len(effect.advancedItems[j].auras) > 0
       /\ \E m \in ItemIndices(spin.items) : spin.items[m].sprite = orbit.items[k].sprite
       /\ hist.orbitSnap[orbit.items[k].sprite].rotation
            # hist.spinSnap[orbit.items[k].sprite]

\* Spin or Orbit writes the sprite's rotation in every frame
RotationDriven(sprite) ==
  \/ \E k \in ItemIndices(spin.items) :
       spin.items[k].sprite = sprite /\ spin.items[k].active
  \/ \E k \in ItemIndices(orbit.items) :
       /\ orbit.items[k].sprite = sprite
       /\ orbit.items[k].active /\ orbit.items[k].radius > 0
       /\ PolicyOrients(orbit.items[k])

\* C27: for a sprite whose rotation Spin or Orbit writes and which has a tilt
\* effect, after every frame the rotation is the one Spin and Orbit wrote in
\* that frame plus the current tilt angle, also when the tilt angle is the
\* one of the previous frame.
C27_TiltComposesWithDrivenRotation ==
  (EffectTicked /\ hist.procTicks = <<"SpinL", "Orbit", "Effect">>) =>
    \A j \in ItemIndices(effect.basicItems) :
      RotationDriven(effect.basicItems[j].spriteIdx) =>
        sprites[effect.basicItems[j].spriteIdx].rotation
          = Add(hist.orbitSnap[effect.basicItems[j].spriteIdx].rotation,
                N(CurrentTilt(effect.basicItems[j])))

\* a frame has ticked a spinning sprite whose tilt of a quarter turn is the
\* one applied in an earlier frame
C27_Witness ==
  /\ EffectTicked /\ hist.procTicks = <<"SpinL", "Orbit", "Effect">>
  /\ \E j \in ItemIndices(effect.basicItems) :
       /\ RotationDriven(effect.basicItems[j].spriteIdx)
       /\ CurrentTilt(effect.basicItems[j]) = Pi \div 2
       /\ effect.basicItems[j].prevTiltRad = Pi \div 2
       /\ sprites[effect.basicItems[j].spriteIdx].rotation
            = hist.orbitSnap[effect.basicItems[j].spriteIdx].rotation

\* the number of ticks of processor p in the frame just delivered
TicksOf(p) == Cardinality({n \in 1..Len(hist.procTicks) : hist.procTicks[n] = p})

\* C28: after one or more buildScene calls without a dispose, a frame in
\* which no processor throws ticks each of Spin, Orbit and Effect exactly
\* once.
C28_OneTickPerFrame ==
  (/\ hist.lastOp = "frame" /\ hist.procTicks # <<>> /\ hist.procThrew = <<>>
   /\ hist.builds >= 1 /\ ~hist.everDisposed) =>
    \A p \in {"SpinL", "Orbit", "Effect"} : TicksOf(p) = 1

\* a frame has ticked the processors of an engine whose buildScene ran
\* twice and whose dispose never ran
C28_Witness ==
  /\ hist.lastOp = "frame" /\ hist.procTicks # <<>> /\ hist.procThrew = <<>>
  /\ hist.builds = 2 /\ ~hist.everDisposed
  /\ Len(spin.items) > 0 /\ spin.elapsedTime > 0

\* C29: after dispose(), buildScene on the same engine initializes the
\* Basic, SpinL, Orbit and Effect processors with the new layers and
\* getProcessor finds each of them, and a frame that then invokes the
\* engine's callback ticks them.
C29_ReusableAfterDispose ==
  /\ (hist.everDisposed /\ hist.lastOp = "buildScene") =>
       /\ \A p \in {"Basic", "SpinL", "Orbit", "Effect"} :
            \E k \in 1..Len(processors) : processors[k] = p
       /\ Len(basic) = Len(context.layers)
       /\ effect.live
  /\ (hist.everDisposed /\ hist.lastOp = "frame" /\ context.live
        /\ Len(hist.invoked) > 0) =>
       hist.procTicks # <<>>

\* buildScene has built a spinning layer on an engine disposed before, and
\* left the ticker running
C29_Witness ==
  /\ hist.everDisposed /\ hist.lastOp = "buildScene"
  /\ context.live /\ ticker.isRunning
  /\ \E i \in 1..Len(context.layers) : JsGt0(context.layers[i].spinRPM)

\* Math.max(0, Math.min(1, alpha)), in hundredths
Clamp01(alpha) == Max(0, Min(100, alpha))

\* C30: a looped fade, the only effect of its layer, writes clamp01(from) at
\* every multiple of its duration and clamp01(to) at the midpoint of every
\* period, with either easing.
C30_LoopedFadeReachesBothEnds ==
  EffectTicked =>
    \A j \in ItemIndices(effect.basicItems) :
      (/\ Len(effect.basicItems[j].specs) = 1
       /\ effect.basicItems[j].specs[1].type = "fade"
       /\ effect.basicItems[j].specs[1].loop) =>
        /\ (effect.elapsedTime * MsPerSecond) % effect.basicItems[j].specs[1].durationMs = 0 =>
             sprites[effect.basicItems[j].spriteIdx].alpha
               = Clamp01(effect.basicItems[j].specs[1].from)
        /\ (2 * effect.elapsedTime * MsPerSecond) % (2 * effect.basicItems[j].specs[1].durationMs)
             = effect.basicItems[j].specs[1].durationMs =>
             sprites[effect.basicItems[j].spriteIdx].alpha
               = Clamp01(effect.basicItems[j].specs[1].to)

\* an Effect tick at the midpoint of the period of a looped 'sineInOut'
\* fade
C30_Witness ==
  /\ EffectTicked
  /\ effect.elapsedTime = 1
  /\ \E j \in ItemIndices(effect.basicItems) :
       /\ Len(effect.basicItems[j].specs) = 1
       /\ effect.basicItems[j].specs[1].type = "fade"
       /\ effect.basicItems[j].specs[1].loop
       /\ effect.basicItems[j].specs[1].easing = "sineInOut"
       /\ effect.basicItems[j].specs[1].durationMs = 2000

====
